---- MODULE Spec2Model ----
(***************************************************************************)
(* A model of the track network, the path builder, the motion engine and   *)
(* the play loop of the isometric train-set builder.                       *)
(*                                                                         *)
(* Progress, speed*dt and cumulative distance are fixed-point numbers in   *)
(* units of 1/Unit of a segment.                                           *)
(***************************************************************************)
EXTENDS Integers, Sequences, FiniteSets, TLC

VARIABLES
  tracks,          \* state.tracks: the track map, in Map insertion order
  isPlaying,       \* state.isPlaying
  wasPlaying,      \* wasPlayingRef
  trainPath,       \* trainPathRef (the path argument of advanceTrainPosition)
  trainSegment,    \* trainSegmentRef
  trainProgress,   \* trainProgressRef, in units of 1/Unit
  trainDirection,  \* trainDirectionRef
  stopped,         \* the stopped flag returned by the last advanceTrainPosition call
  pathHistory,     \* pathHistoryRef
  totalDistance,   \* totalDistanceRef, in units of 1/Unit
  walk,            \* the locals of a running buildPath call
  exitCall,        \* the arguments and the result of a findExitDirection call
  lastCall,        \* history variable: the arguments of the last advanceTrainPosition call
  playStartTracks, \* history variable: state.tracks at the last change of isPlaying to true
  sessionLog,      \* history variable: the history points pushed since that change
  redSeen,         \* history variable: some segment of trainPath has been a red signal
  frameAdvanced,   \* history variable: the last step was a frame that advanced the train
  clicks,          \* history variable: the number of tool clicks so far
  call,            \* the arguments and the result of a call of a pure function
  editor           \* the editor: terrain, undo and redo stacks, number of edits so far

vars == <<tracks, isPlaying, wasPlaying, trainPath, trainSegment, trainProgress,
          trainDirection, stopped, pathHistory, totalDistance, walk, exitCall,
          lastCall, playStartTracks, sessionLog, redSeen, frameAdvanced,
          clicks, call, editor>>

---------------------------------------------------------------------------
(* Bounds of the model *)

Unit == 4
MaxStep == 6
MaxSegs == 4
MaxSignals == 1
GridW == 2
MaxCells == 4
MaxOffset == 1
MaxPlayDistance == 6
MaxClicks == 1
MaxLine == 7
MaxStations == 3

---------------------------------------------------------------------------
(* Directions and rotation: types/tracks.ts *)

DIRECTIONS == <<"N", "E", "S", "W">>

DirectionSet == {"N", "E", "S", "W"}

Rotations == {0, 90, 180, 270}

OPPOSITE_DIRECTION == [N |-> "S", E |-> "W", S |-> "N", W |-> "E"]

DIRECTION_OFFSETS ==
  [N |-> [x |-> 0, y |-> -1], E |-> [x |-> 1, y |-> 0],
   S |-> [x |-> 0, y |-> 1],  W |-> [x |-> -1, y |-> 0]]

\* Array.prototype.indexOf, 0-based, -1 when absent
indexOf(seq, e) ==
  IF \E i \in 1..Len(seq) : seq[i] = e
    THEN (CHOOSE i \in 1..Len(seq) : seq[i] = e /\ \A j \in 1..(i - 1) : seq[j] # e) - 1
    ELSE -1

\* rotateDirection with the steps counted in half turns
rotateDirection_halfTurnSteps(direction, rotation) ==
  DIRECTIONS[((indexOf(DIRECTIONS, direction) + (rotation \div 180)) % 4) + 1]

rotateDirection(direction, rotation) ==
  DIRECTIONS[((indexOf(DIRECTIONS, direction) + (rotation \div 90)) % 4) + 1]

---------------------------------------------------------------------------
(* Track definitions: constants/tracks.ts *)

TRACK_DEFINITIONS ==
  [straight        |-> << <<"N", "S">> >>,
   curve_90        |-> << <<"N", "E">> >>,
   switch_left     |-> << <<"S", "N">>, <<"S", "W">> >>,
   switch_right    |-> << <<"S", "N">>, <<"S", "E">> >>,
   crossing        |-> << <<"N", "S">>, <<"E", "W">> >>,
   slope_up        |-> << <<"N", "S">> >>,
   slope_down      |-> << <<"N", "S">> >>,
   bridge          |-> << <<"N", "S">> >>,
   tunnel_entrance |-> << <<"N", "S">> >>,
   station         |-> << <<"N", "S">> >>,
   signal          |-> << <<"N", "S">> >>]

TrackTypes == DOMAIN TRACK_DEFINITIONS

\* A TrackPiece; an absent switchState or signalState is "none"
TrackPiece(id, type, x, y, rotation, elevation, switchState, signalState) ==
  [id |-> id, type |-> type, x |-> x, y |-> y, rotation |-> rotation,
   elevation |-> elevation, switchState |-> switchState, signalState |-> signalState]

\* The value of "no track" (null)
NoTrack == TrackPiece(0, "none", -1, -1, 0, 0, "none", "none")

---------------------------------------------------------------------------
(* Connections: logic/connections.ts *)

getNeighborPosition(pos, direction) ==
  [x |-> pos.x + DIRECTION_OFFSETS[direction].x,
   y |-> pos.y + DIRECTION_OFFSETS[direction].y]

position(track) == [x |-> track.x, y |-> track.y]

\* The first track in Map iteration order at the position, or null
findTrackAtPosition(trackMap, pos) ==
  IF \E i \in 1..Len(trackMap) : position(trackMap[i]) = pos
    THEN trackMap[CHOOSE i \in 1..Len(trackMap) :
                    /\ position(trackMap[i]) = pos
                    /\ \A j \in 1..(i - 1) : position(trackMap[j]) # pos]
    ELSE NoTrack

RECURSIVE Flatten(_)
Flatten(seqs) == IF seqs = <<>> THEN <<>> ELSE Head(seqs) \o Flatten(Tail(seqs))

\* A connection path is a pair of directions
rotatePath(path, rotation) ==
  <<rotateDirection(path[1], rotation), rotateDirection(path[2], rotation)>>

\* The directions getTrackConnections adds to its Set, in the order of its two loops
addedDirections(track) ==
  LET def == TRACK_DEFINITIONS[track.type]
  IN [k \in 1..(2 * Len(def)) |->
        rotateDirection(def[(k + 1) \div 2][2 - (k % 2)], track.rotation)]

\* Array.from(Set): the distinct directions in order of first insertion
getTrackConnections(track) ==
  IF track.type \notin TrackTypes THEN <<>>
  ELSE LET added == addedDirections(track)
           firsts == {k \in 1..Len(added) : \A j \in 1..(k - 1) : added[j] # added[k]}
       IN [i \in 1..Cardinality(firsts) |->
             added[CHOOSE k \in firsts : Cardinality({j \in firsts : j <= k}) = i]]

Range(seq) == {seq[i] : i \in 1..Len(seq)}

hasConnectionInDirection(track, direction) ==
  direction \in Range(getTrackConnections(track))

\* The neighbours in the order of DIRECTIONS that have a connection facing the position
findConnectableNeighbors(pos, trackMap) ==
  LET facing(direction) ==
        LET neighborTrack == findTrackAtPosition(trackMap, getNeighborPosition(pos, direction))
        IN /\ neighborTrack # NoTrack
           /\ hasConnectionInDirection(neighborTrack, OPPOSITE_DIRECTION[direction])
      entry(i) == [direction |-> DIRECTIONS[i],
                   track |-> findTrackAtPosition(trackMap,
                                                 getNeighborPosition(pos, DIRECTIONS[i]))]
      kept == {i \in 1..Len(DIRECTIONS) : facing(DIRECTIONS[i])}
  IN [k \in 1..Cardinality(kept) |->
        entry(CHOOSE i \in kept : Cardinality({j \in kept : j <= i}) = k)]

\* The rotations in the order calculateBestRotation tries them
rotations == <<0, 90, 180, 270>>

\* The score calculateBestRotation gives to a rotation
rotationScore(trackType, rotation, neighbors) ==
  LET connections == {rotateDirection(TRACK_DEFINITIONS[trackType][i][j], rotation) :
                        i \in 1..Len(TRACK_DEFINITIONS[trackType]), j \in 1..2}
  IN Cardinality({k \in 1..Len(neighbors) : neighbors[k].direction \in connections})

RECURSIVE bestRotationLoop_lastWins(_, _, _, _, _)
\* The loop of calculateBestRotation with a rotation that ties taking over
bestRotationLoop_lastWins(trackType, neighbors, k, bestRotation, bestScore) ==
  IF k > Len(rotations) THEN [rotation |-> bestRotation, connectionCount |-> bestScore]
  ELSE LET score == rotationScore(trackType, rotations[k], neighbors)
       IN IF score >= bestScore
            THEN bestRotationLoop_lastWins(trackType, neighbors, k + 1, rotations[k], score)
            ELSE bestRotationLoop_lastWins(trackType, neighbors, k + 1, bestRotation, bestScore)

RECURSIVE bestRotationLoop(_, _, _, _, _)
\* The loop of calculateBestRotation from the k-th rotation on
bestRotationLoop(trackType, neighbors, k, bestRotation, bestScore) ==
  IF k > Len(rotations) THEN [rotation |-> bestRotation, connectionCount |-> bestScore]
  ELSE LET score == rotationScore(trackType, rotations[k], neighbors)
       IN IF score > bestScore
            THEN bestRotationLoop(trackType, neighbors, k + 1, rotations[k], score)
            ELSE bestRotationLoop(trackType, neighbors, k + 1, bestRotation, bestScore)

calculateBestRotation(trackType, pos, trackMap, terrainElevation) ==
  IF trackType \notin TrackTypes
    THEN [rotation |-> 0, connectionCount |-> 0, elevation |-> terrainElevation]
  ELSE LET best == bestRotationLoop(trackType, findConnectableNeighbors(pos, trackMap),
                                    1, 0, -1)
       IN [rotation |-> best.rotation, connectionCount |-> best.connectionCount,
           elevation |-> terrainElevation]

\* canPlaceTrack without the test for a piece already at the position
canPlaceTrack_boundsOnly(pos, trackMap, gridWidth, gridHeight) ==
  ~(pos.x < 0 \/ pos.x >= gridWidth \/ pos.y < 0 \/ pos.y >= gridHeight)

canPlaceTrack(pos, trackMap, gridWidth, gridHeight) ==
  /\ ~(pos.x < 0 \/ pos.x >= gridWidth \/ pos.y < 0 \/ pos.y >= gridHeight)
  /\ findTrackAtPosition(trackMap, pos) = NoTrack

\* getConnectedTracks without the test of the neighbour's own connections
getConnectedTracks_oneSided(track, trackMap) ==
  LET myConnections == getTrackConnections(track)
      neighbour(i) == findTrackAtPosition(trackMap,
                                          getNeighborPosition(position(track), myConnections[i]))
      kept == {i \in 1..Len(myConnections) : neighbour(i) # NoTrack}
  IN [k \in 1..Cardinality(kept) |->
        LET i == CHOOSE i \in kept : Cardinality({j \in kept : j <= i}) = k
        IN [direction |-> myConnections[i], track |-> neighbour(i)]]

getConnectedTracks(track, trackMap) ==
  LET myConnections == getTrackConnections(track)
      neighbour(i) == findTrackAtPosition(trackMap,
                                          getNeighborPosition(position(track), myConnections[i]))
      kept == {i \in 1..Len(myConnections) :
                 /\ neighbour(i) # NoTrack
                 /\ hasConnectionInDirection(neighbour(i),
                                             OPPOSITE_DIRECTION[myConnections[i]])}
  IN [k \in 1..Cardinality(kept) |->
        LET i == CHOOSE i \in kept : Cardinality({j \in kept : j <= i}) = k
        IN [direction |-> myConnections[i], track |-> neighbour(i)]]

---------------------------------------------------------------------------
(* Path builder: logic/pathfinding.ts *)

NoExit == [found |-> FALSE, exitDirection |-> "none", pathIndex |-> -1]

\* Array.prototype.find(dir => dir !== entryDirection) on a rotated path
otherDirection(rotatedPath, entryDirection) ==
  IF \E i \in 1..Len(rotatedPath) : rotatedPath[i] # entryDirection
    THEN rotatedPath[CHOOSE i \in 1..Len(rotatedPath) :
                       /\ rotatedPath[i] # entryDirection
                       /\ \A j \in 1..(i - 1) : rotatedPath[j] = entryDirection]
    ELSE "none"

\* The divert path (index 1) of a switch is skipped unless the switch selects it
divertSkipped(track, pathIndex) ==
  /\ track.type \in {"switch_left", "switch_right"}
  /\ pathIndex = 1
  /\ LET switchState == IF track.switchState = "none" THEN "left" ELSE track.switchState
     IN \/ (track.type = "switch_left" /\ switchState # "left")
        \/ (track.type = "switch_right" /\ switchState # "right")

RECURSIVE findExitFrom(_, _, _)
\* The for loop of findExitDirection, from pathIndex on
findExitFrom(track, entryDirection, pathIndex) ==
  LET def == TRACK_DEFINITIONS[track.type] IN
  IF pathIndex >= Len(def) THEN NoExit
  ELSE LET rotatedPath == rotatePath(def[pathIndex + 1], track.rotation)
           exitDirection == otherDirection(rotatedPath, entryDirection)
       IN IF indexOf(rotatedPath, entryDirection) # -1 /\ exitDirection # "none"
            THEN IF divertSkipped(track, pathIndex)
                   THEN findExitFrom(track, entryDirection, pathIndex + 1)
                   ELSE [found |-> TRUE, exitDirection |-> exitDirection,
                         pathIndex |-> pathIndex]
            ELSE findExitFrom(track, entryDirection, pathIndex + 1)

\* findExitDirection that reports the main path whichever path it took
findExitDirection_reportsMainPath(track, entryDirection) ==
  LET result == IF track.type \notin TrackTypes THEN NoExit
                ELSE findExitFrom(track, entryDirection, 0)
  IN IF result.found THEN [result EXCEPT !.pathIndex = 0] ELSE result

findExitDirection(track, entryDirection) ==
  IF track.type \notin TrackTypes THEN NoExit
  ELSE findExitFrom(track, entryDirection, 0)


Segment(track, entryDirection, exitDirection, pathIndex) ==
  [trackId |-> track.id, track |-> track, entryDirection |-> entryDirection,
   exitDirection |-> exitDirection, pathIndex |-> pathIndex]

TrainPath(segments, isLoop) ==
  [isNull |-> FALSE, segments |-> segments, isLoop |-> isLoop,
   totalLength |-> Len(segments)]

\* The value of "no path" (null)
NullPath == [isNull |-> TRUE, segments |-> <<>>, isLoop |-> FALSE, totalLength |-> 0]

\* The locals of buildPath before the first iteration of its loop
walkStart(startTrack, startDirection) ==
  [currentTrack |-> startTrack, entryDirection |-> startDirection,
   segments |-> <<>>, visitedKeys |-> {}, isLoop |-> FALSE,
   running |-> TRUE, stop |-> "none"]

\* The locals of a buildPath call that is not running
NoWalk ==
  [currentTrack |-> NoTrack, entryDirection |-> "none",
   segments |-> <<>>, visitedKeys |-> {}, isLoop |-> FALSE,
   running |-> FALSE, stop |-> "none"]

\* buildPathStep without visitedKeys.add
buildPathStep_forgetsVisited(w, trackMap) ==
  LET visitKey == <<w.currentTrack.id, w.entryDirection>>
      exitResult == findExitDirection(w.currentTrack, w.entryDirection)
      pushed == Append(w.segments,
                  Segment(w.currentTrack, w.entryDirection,
                          exitResult.exitDirection, exitResult.pathIndex))
      nextPos == getNeighborPosition(position(w.currentTrack), exitResult.exitDirection)
      nextTrack == findTrackAtPosition(trackMap, nextPos)
      nextEntryDirection == OPPOSITE_DIRECTION[exitResult.exitDirection]
  IN IF visitKey \in w.visitedKeys
       THEN [w EXCEPT !.isLoop = TRUE, !.running = FALSE, !.stop = "revisit"]
     ELSE IF ~exitResult.found
       THEN [w EXCEPT !.running = FALSE, !.stop = "noExit"]
     ELSE IF nextTrack = NoTrack
       THEN [w EXCEPT !.segments = pushed, !.running = FALSE, !.stop = "noNeighbour"]
     ELSE IF ~hasConnectionInDirection(nextTrack, nextEntryDirection)
       THEN [w EXCEPT !.segments = pushed, !.running = FALSE, !.stop = "notFacing"]
     ELSE [w EXCEPT !.segments = pushed,
                    !.currentTrack = nextTrack, !.entryDirection = nextEntryDirection]

\* buildPathStep with the visit key made of the track id alone
buildPathStep_keyedByTrack(w, trackMap) ==
  LET visitKey == <<w.currentTrack.id, "N">>
      exitResult == findExitDirection(w.currentTrack, w.entryDirection)
      pushed == Append(w.segments,
                  Segment(w.currentTrack, w.entryDirection,
                          exitResult.exitDirection, exitResult.pathIndex))
      nextPos == getNeighborPosition(position(w.currentTrack), exitResult.exitDirection)
      nextTrack == findTrackAtPosition(trackMap, nextPos)
      nextEntryDirection == OPPOSITE_DIRECTION[exitResult.exitDirection]
  IN IF visitKey \in w.visitedKeys
       THEN [w EXCEPT !.isLoop = TRUE, !.running = FALSE, !.stop = "revisit"]
     ELSE IF ~exitResult.found
       THEN [w EXCEPT !.visitedKeys = @ \cup {visitKey},
                      !.running = FALSE, !.stop = "noExit"]
     ELSE IF nextTrack = NoTrack
       THEN [w EXCEPT !.visitedKeys = @ \cup {visitKey}, !.segments = pushed,
                      !.running = FALSE, !.stop = "noNeighbour"]
     ELSE IF ~hasConnectionInDirection(nextTrack, nextEntryDirection)
       THEN [w EXCEPT !.visitedKeys = @ \cup {visitKey}, !.segments = pushed,
                      !.running = FALSE, !.stop = "notFacing"]
     ELSE [w EXCEPT !.visitedKeys = @ \cup {visitKey}, !.segments = pushed,
                    !.currentTrack = nextTrack, !.entryDirection = nextEntryDirection]

\* One iteration of the while loop of buildPath
buildPathStep(w, trackMap) ==
  LET visitKey == <<w.currentTrack.id, w.entryDirection>>
      exitResult == findExitDirection(w.currentTrack, w.entryDirection)
      pushed == Append(w.segments,
                  Segment(w.currentTrack, w.entryDirection,
                          exitResult.exitDirection, exitResult.pathIndex))
      nextPos == getNeighborPosition(position(w.currentTrack), exitResult.exitDirection)
      nextTrack == findTrackAtPosition(trackMap, nextPos)
      nextEntryDirection == OPPOSITE_DIRECTION[exitResult.exitDirection]
  IN IF visitKey \in w.visitedKeys
       THEN [w EXCEPT !.isLoop = TRUE, !.running = FALSE, !.stop = "revisit"]
     ELSE IF ~exitResult.found
       THEN [w EXCEPT !.visitedKeys = @ \cup {visitKey},
                      !.running = FALSE, !.stop = "noExit"]
     ELSE IF nextTrack = NoTrack
       THEN [w EXCEPT !.visitedKeys = @ \cup {visitKey}, !.segments = pushed,
                      !.running = FALSE, !.stop = "noNeighbour"]
     ELSE IF ~hasConnectionInDirection(nextTrack, nextEntryDirection)
       THEN [w EXCEPT !.visitedKeys = @ \cup {visitKey}, !.segments = pushed,
                      !.running = FALSE, !.stop = "notFacing"]
     ELSE [w EXCEPT !.visitedKeys = @ \cup {visitKey}, !.segments = pushed,
                    !.currentTrack = nextTrack, !.entryDirection = nextEntryDirection]

RECURSIVE runWalk(_, _)
\* The while loop of buildPath, run to its end
runWalk(w, trackMap) ==
  IF w.running THEN runWalk(buildPathStep(w, trackMap), trackMap) ELSE w

\* buildPath with isLoop left at its initial false
buildPath_neverLoop(startTrack, startDirection, trackMap) ==
  LET w == runWalk(walkStart(startTrack, startDirection), trackMap)
  IN TrainPath(w.segments, FALSE)

buildPath(startTrack, startDirection, trackMap) ==
  LET w == runWalk(walkStart(startTrack, startDirection), trackMap)
  IN TrainPath(w.segments, w.isLoop)

\* reverseSegments without the exchange of entry and exit
reverseSegments_keepsDirections(segments) ==
  [i \in 1..Len(segments) |-> segments[Len(segments) + 1 - i]]

\* path1Segments.slice().reverse().map(...) of buildFullPathFromStation
reverseSegments(segments) ==
  [i \in 1..Len(segments) |->
     LET seg == segments[Len(segments) + 1 - i]
     IN [seg EXCEPT !.entryDirection = seg.exitDirection,
                    !.exitDirection = seg.entryDirection]]

\* The segments walked outward from the neighbour of a station, if it faces back
neighbourSegments(nextTrack, entryDirection, trackMap) ==
  IF nextTrack # NoTrack /\ hasConnectionInDirection(nextTrack, entryDirection)
    THEN buildPath(nextTrack, entryDirection, trackMap).segments
    ELSE <<>>

\* path1Segments and path2Segments of buildFullPathFromStation
outwardSegments(station, dir, trackMap) ==
  neighbourSegments(
    findTrackAtPosition(trackMap, getNeighborPosition(position(station), dir)),
    OPPOSITE_DIRECTION[dir], trackMap)

\* The loop test of buildFullPathFromStation on its first and last segment
closesOn(first, last) ==
  getNeighborPosition(position(last.track), last.exitDirection) = position(first.track)

\* The path buildFullPathFromStation returns for its fullSegments
stationPath(fullSegments) ==
  TrainPath(fullSegments,
            /\ Len(fullSegments) > 2
            /\ closesOn(fullSegments[1], fullSegments[Len(fullSegments)]))

\* buildFullPathFromStation, given the connections of the station
pathThroughStation(station, connections, trackMap) ==
  IF Len(connections) = 0 THEN NullPath
  ELSE IF Len(connections) >= 2
    THEN stationPath(
           reverseSegments(outwardSegments(station, connections[1], trackMap))
           \o <<Segment(station, connections[1], connections[2], 0)>>
           \o outwardSegments(station, connections[2], trackMap))
  ELSE buildPath(station, connections[1], trackMap)

buildFullPathFromStation(station, trackMap) ==
  pathThroughStation(station, getTrackConnections(station), trackMap)

\* One pass of the station loop body of findBestPath
preferStationPath(bestPath, path) ==
  LET longer ==
        IF ~path.isNull /\ (bestPath.isNull
                            \/ Len(path.segments) > Len(bestPath.segments))
          THEN path ELSE bestPath
  IN IF ~path.isNull /\ path.isLoop
        /\ (~longer.isLoop \/ Len(path.segments) > Len(longer.segments))
       THEN path ELSE longer

\* One pass of the fallback loop body of findBestPath
preferLongerPath(bestPath, path) ==
  IF bestPath.isNull \/ Len(path.segments) > Len(bestPath.segments)
    THEN path ELSE bestPath

RECURSIVE bestStationPath(_, _, _)
bestStationPath(stations, trackMap, bestPath) ==
  IF stations = <<>> THEN bestPath
  ELSE bestStationPath(Tail(stations), trackMap,
         preferStationPath(bestPath, buildFullPathFromStation(Head(stations), trackMap)))

\* The (track, direction) pairs of the fallback loops of findBestPath, in order
fallbackStarts(trackMap) ==
  Flatten([i \in 1..Len(trackMap) |->
             LET connections == getTrackConnections(trackMap[i])
             IN [j \in 1..Len(connections) |->
                   [track |-> trackMap[i], direction |-> connections[j]]]])

RECURSIVE bestFallbackPath(_, _, _)
bestFallbackPath(starts, trackMap, bestPath) ==
  IF starts = <<>> THEN bestPath
  ELSE bestFallbackPath(Tail(starts), trackMap,
         preferLongerPath(bestPath,
           buildPath(Head(starts).track, Head(starts).direction, trackMap)))

findBestPath(trackMap) ==
  LET isStation(t) == t.type = "station"
      stations == SelectSeq(trackMap, isStation)
      bestPath == bestStationPath(stations, trackMap, NullPath)
  IN IF bestPath.isNull
       THEN bestFallbackPath(fallbackStarts(trackMap), trackMap, NullPath)
       ELSE bestPath

---------------------------------------------------------------------------
(* Motion engine: logic/trainMovement.ts *)

Max(a, b) == IF a >= b THEN a ELSE b

Min(a, b) == IF a <= b THEN a ELSE b

isRedSignal(segment) ==
  segment.track.type = "signal" /\ segment.track.signalState = "red"

RECURSIVE forwardLoop(_, _, _)
\* The while loop of advanceTrainPosition for direction 1
forwardLoop(path, newSegment, newProgress) ==
  IF newProgress < Unit
    THEN [segmentIndex |-> newSegment, progress |-> newProgress,
          direction |-> 1, stopped |-> FALSE]
  ELSE LET stepped == newSegment + 1
           atEnd == stepped >= Len(path.segments)
           entered == IF atEnd THEN 0 ELSE stepped
       IN IF atEnd /\ ~path.isLoop
            THEN [segmentIndex |-> Len(path.segments) - 1, progress |-> newProgress - Unit,
                  direction |-> -1, stopped |-> FALSE]
          ELSE IF isRedSignal(path.segments[entered + 1])
            THEN [segmentIndex |-> entered, progress |-> 0,
                  direction |-> 1, stopped |-> TRUE]
          ELSE forwardLoop(path, entered, newProgress - Unit)

RECURSIVE backwardLoop(_, _, _)
\* The while loop of advanceTrainPosition for direction -1
backwardLoop(path, newSegment, newProgress) ==
  IF newProgress < Unit
    THEN [segmentIndex |-> newSegment, progress |-> newProgress,
          direction |-> -1, stopped |-> FALSE]
  ELSE LET stepped == newSegment - 1
           atStart == stepped < 0
           entered == IF atStart THEN Len(path.segments) - 1 ELSE stepped
       IN IF atStart /\ ~path.isLoop
            THEN [segmentIndex |-> 0, progress |-> newProgress - Unit,
                  direction |-> 1, stopped |-> FALSE]
          ELSE IF isRedSignal(path.segments[entered + 1])
            THEN [segmentIndex |-> entered, progress |-> 0,
                  direction |-> -1, stopped |-> TRUE]
          ELSE backwardLoop(path, entered, newProgress - Unit)

\* The body of advanceTrainPosition before its return statement
advanceLoops(path, currentSegment, currentProgress, delta, direction) ==
  IF direction = 1
    THEN forwardLoop(path, currentSegment, currentProgress + delta)
    ELSE backwardLoop(path, currentSegment, currentProgress + delta)

\* advanceTrainPosition with progress counted down when the train runs backward
advanceTrainPosition_backwardCountsDown(path, currentSegment, currentProgress, delta, direction) ==
  IF Len(path.segments) = 0
    THEN [segmentIndex |-> 0, progress |-> 0, direction |-> 1, stopped |-> TRUE]
  ELSE LET r == IF direction = 1
                  THEN forwardLoop(path, currentSegment, currentProgress + delta)
                  ELSE backwardLoop(path, currentSegment, currentProgress - delta)
       IN [r EXCEPT !.progress = Max(0, Min(Unit, r.progress))]

\* advanceTrainPosition with the excess dropped when the train turns round
advanceTrainPosition_turnsAtZero(path, currentSegment, currentProgress, delta, direction) ==
  IF Len(path.segments) = 0
    THEN [segmentIndex |-> 0, progress |-> 0, direction |-> 1, stopped |-> TRUE]
  ELSE LET r == advanceLoops(path, currentSegment, currentProgress, delta, direction)
       IN IF r.direction # direction
            THEN [r EXCEPT !.progress = 0]
            ELSE [r EXCEPT !.progress = Max(0, Min(Unit, r.progress))]

\* advanceTrainPosition with the ends of a loop treated as the ends of a line
advanceTrainPosition_loopAsLine(path, currentSegment, currentProgress, delta, direction) ==
  IF Len(path.segments) = 0
    THEN [segmentIndex |-> 0, progress |-> 0, direction |-> 1, stopped |-> TRUE]
  ELSE LET r == advanceLoops([path EXCEPT !.isLoop = FALSE],
                             currentSegment, currentProgress, delta, direction)
       IN [r EXCEPT !.progress = Max(0, Min(Unit, r.progress))]

\* advanceTrainPosition with the train kept at the end of a line it runs into
advanceTrainPosition_restsAtEnd(path, currentSegment, currentProgress, delta, direction) ==
  IF Len(path.segments) = 0
    THEN [segmentIndex |-> 0, progress |-> 0, direction |-> 1, stopped |-> TRUE]
  ELSE LET r == advanceLoops(path, currentSegment, currentProgress, delta, direction)
       IN IF r.direction # direction
            THEN [segmentIndex |-> r.segmentIndex, progress |-> Unit,
                  direction |-> direction, stopped |-> FALSE]
            ELSE [r EXCEPT !.progress = Max(0, Min(Unit, r.progress))]

\* advanceTrainPosition returning newProgress as the loops leave it
advanceTrainPosition_keepsExcess(path, currentSegment, currentProgress, delta, direction) ==
  IF Len(path.segments) = 0
    THEN [segmentIndex |-> 0, progress |-> 0, direction |-> 1, stopped |-> TRUE]
  ELSE advanceLoops(path, currentSegment, currentProgress, delta, direction)

\* delta is speed * deltaTime
advanceTrainPosition(path, currentSegment, currentProgress, delta, direction) ==
  IF Len(path.segments) = 0
    THEN [segmentIndex |-> 0, progress |-> 0, direction |-> 1, stopped |-> TRUE]
  ELSE LET r == advanceLoops(path, currentSegment, currentProgress, delta, direction)
       IN [r EXCEPT !.progress = Max(0, Min(Unit, r.progress))]

---------------------------------------------------------------------------
(* Select tool: components/GameCanvas.tsx, handleClick *)

toggleSwitch(track) ==
  [track EXCEPT !.switchState = IF @ = "left" THEN "right" ELSE "left"]

toggleSignal(track) ==
  [track EXCEPT !.signalState = IF @ = "green" THEN "red" ELSE "green"]

---------------------------------------------------------------------------
(* Variables a specification leaves alone *)

mapVars == <<tracks>>

playVars == <<isPlaying, wasPlaying, pathHistory, playStartTracks, sessionLog,
              frameAdvanced, clicks>>

trainVars == <<trainPath, trainSegment, trainProgress, trainDirection, stopped,
               totalDistance, lastCall, redSeen>>

walkVars == <<walk>>

exitVars == <<exitCall, call, editor>>

\* No advanceTrainPosition call has been made
NoAdvance == [made |-> FALSE, segment |-> 0, progress |-> 0, direction |-> 1, delta |-> 0]

AdvanceCall(segment, progress, direction, delta) ==
  [made |-> TRUE, segment |-> segment, progress |-> progress, direction |-> direction,
   delta |-> delta]

NoCall == [track |-> NoTrack, entryDirection |-> "none", result |-> NoExit,
           called |-> FALSE]

MapIdle == tracks = <<>>

PlayIdle ==
  /\ isPlaying = FALSE
  /\ wasPlaying = FALSE
  /\ pathHistory = <<>>
  /\ playStartTracks = <<>>
  /\ sessionLog = <<>>
  /\ frameAdvanced = FALSE
  /\ clicks = 0

TrainIdle ==
  /\ trainPath = NullPath
  /\ trainSegment = 0
  /\ trainProgress = 0
  /\ trainDirection = 1
  /\ stopped = FALSE
  /\ totalDistance = 0
  /\ lastCall = NoAdvance
  /\ redSeen = FALSE

WalkIdle == walk = NoWalk

\* No pure function has been called
NotCalled == [fn |-> "none"]

\* The editor is not in use
NoEditor == [edits |-> 0]

EditIdle == editor = NoEditor

ExitIdle == exitCall = NoCall /\ call = NotCalled /\ EditIdle

---------------------------------------------------------------------------
(* SpecExit: findExitDirection applied to one track piece *)

SwitchStates(type) ==
  IF type \in {"switch_left", "switch_right"} THEN {"none", "left", "right"} ELSE {"none"}

InitExit ==
  /\ \E type \in TrackTypes, rotation \in Rotations :
       \E switchState \in SwitchStates(type) :
         exitCall = [NoCall EXCEPT
                       !.track = TrackPiece(1, type, 0, 0, rotation, 0, switchState, "none")]
  /\ call = NotCalled
  /\ EditIdle
  /\ MapIdle /\ PlayIdle /\ TrainIdle /\ WalkIdle

CallFindExit(entryDirection) ==
  /\ ~exitCall.called
  /\ exitCall' = [exitCall EXCEPT
                    !.entryDirection = entryDirection,
                    !.result = findExitDirection(exitCall.track, entryDirection),
                    !.called = TRUE]
  /\ UNCHANGED <<mapVars, playVars, trainVars, walkVars, call, editor>>

NextExit == \E entryDirection \in DirectionSet : CallFindExit(entryDirection)

SpecExit == InitExit /\ [][NextExit]_vars

---------------------------------------------------------------------------
(* SpecMove: the motion engine driven call by call over a given path *)

MaxDistance == 2 * MaxSegs * Unit

LineKinds ==
  {<<"straight", "none">>, <<"signal", "none">>, <<"signal", "green">>, <<"signal", "red">>}

kindSeqs(n) ==
  {k \in [1..n -> LineKinds] :
     Cardinality({i \in 1..n : k[i][1] = "signal"}) <= MaxSignals}

\* A path over a row of east-west pieces, entered from W and left through E
linePath(kinds, isLoop) ==
  TrainPath([i \in 1..Len(kinds) |->
               Segment(TrackPiece(i, kinds[i][1], i - 1, 0, 90, 0, "none", kinds[i][2]),
                       "W", "E", 0)],
            isLoop)

hasRedSignal(path) == \E i \in 1..Len(path.segments) : isRedSignal(path.segments[i])

InitMove ==
  /\ \E n \in 0..MaxSegs, isLoop \in BOOLEAN :
       /\ isLoop => n >= 1
       /\ \E kinds \in kindSeqs(n) : trainPath = linePath(kinds, isLoop)
  /\ trainSegment = 0
  /\ trainProgress = 0
  /\ trainDirection = 1
  /\ stopped = FALSE
  /\ totalDistance = 0
  /\ lastCall = NoAdvance
  /\ redSeen = hasRedSignal(trainPath)
  /\ MapIdle /\ PlayIdle /\ WalkIdle /\ ExitIdle

\* TrainEngine.update with speed * deltaTime = delta
Update(delta) ==
  /\ totalDistance + delta <= MaxDistance
  /\ LET result == advanceTrainPosition(trainPath, trainSegment, trainProgress,
                                        delta, trainDirection)
     IN /\ trainSegment' = result.segmentIndex
        /\ trainProgress' = result.progress
        /\ trainDirection' = result.direction
        /\ stopped' = result.stopped
  /\ totalDistance' = totalDistance + delta
  /\ lastCall' = AdvanceCall(trainSegment, trainProgress, trainDirection, delta)
  /\ UNCHANGED <<trainPath, redSeen, mapVars, playVars, walkVars, exitVars>>

\* The signal of segment i (1-based) is toggled between two calls
SignalChange(i) ==
  /\ trainPath.segments[i].track.type = "signal"
  /\ trainPath' = [trainPath EXCEPT !.segments[i].track =
                                       toggleSignal(trainPath.segments[i].track)]
  /\ redSeen' = (redSeen \/ hasRedSignal(trainPath'))
  /\ UNCHANGED <<trainSegment, trainProgress, trainDirection, stopped, totalDistance,
                 lastCall, mapVars, playVars, walkVars, exitVars>>

NextMove ==
  \/ \E delta \in 0..MaxStep : Update(delta)
  \/ \E i \in 1..Len(trainPath.segments) : SignalChange(i)

SpecMove == InitMove /\ [][NextMove]_vars


---------------------------------------------------------------------------
(* SpecWalk: buildPath run step by step over a small track map *)

\* The grid cells of the model, row by row: cell k is (k mod GridW, k div GridW)
cellX(k) == k % GridW

cellY(k) == k \div GridW

EmptyCell == [type |-> "none", rotation |-> 0, switchState |-> "none"]

\* The pieces a cell of a walked map may hold
WalkShapes ==
  {[type |-> "curve_90", rotation |-> r, switchState |-> "none"] : r \in Rotations}
  \cup {[type |-> "crossing", rotation |-> 0, switchState |-> "none"],
        [type |-> "straight", rotation |-> 0, switchState |-> "none"],
        [type |-> "switch_left", rotation |-> 0, switchState |-> "none"],
        [type |-> "switch_left", rotation |-> 0, switchState |-> "right"]}

RECURSIVE piecesOf(_, _)
\* The track map holding the pieces of cells k.. of a filling, in cell order
piecesOf(filling, k) ==
  IF k >= MaxCells THEN <<>>
  ELSE IF filling[k] = EmptyCell THEN piecesOf(filling, k + 1)
  ELSE <<TrackPiece(k + 1, filling[k].type, cellX(k), cellY(k),
                    filling[k].rotation, 0, filling[k].switchState, "none")>>
       \o piecesOf(filling, k + 1)

InitWalk ==
  /\ \E filling \in [0..(MaxCells - 1) -> WalkShapes \cup {EmptyCell}] :
       tracks = piecesOf(filling, 0)
  /\ walk = NoWalk
  /\ PlayIdle /\ TrainIdle /\ ExitIdle

\* buildPath is called on a track of the map
StartWalk(i, startDirection) ==
  /\ ~walk.running
  /\ walk.stop = "none"
  /\ walk' = walkStart(tracks[i], startDirection)
  /\ UNCHANGED <<mapVars, playVars, trainVars, exitVars>>

\* One iteration of the loop of the running call
StepWalk ==
  /\ walk.running
  /\ walk' = buildPathStep(walk, tracks)
  /\ UNCHANGED <<mapVars, playVars, trainVars, exitVars>>

NextWalk ==
  \/ \E i \in 1..Len(tracks), startDirection \in DirectionSet : StartWalk(i, startDirection)
  \/ StepWalk

SpecWalk == InitWalk /\ [][NextWalk]_vars

---------------------------------------------------------------------------
(* SpecBest: findBestPath applied to four curves laid in a square block *)

\* The cells of the 2 x 2 block at (ox, oy), clockwise from its top left cell
blockCell(ox, oy, c) ==
  CASE c = 1 -> [x |-> ox, y |-> oy]
    [] c = 2 -> [x |-> ox + 1, y |-> oy]
    [] c = 3 -> [x |-> ox + 1, y |-> oy + 1]
    [] c = 4 -> [x |-> ox, y |-> oy + 1]

BlockCells == 1..4

\* The orders in which the four cells can have been filled
BlockOrders == {order \in [BlockCells -> BlockCells] : \A c \in BlockCells : \E k \in BlockCells : order[k] = c}

InitBest ==
  /\ \E ox \in 0..MaxOffset, oy \in 0..MaxOffset :
       \E rotation \in [BlockCells -> Rotations], order \in BlockOrders :
         tracks = [k \in BlockCells |->
                     TrackPiece(order[k], "curve_90",
                                blockCell(ox, oy, order[k]).x, blockCell(ox, oy, order[k]).y,
                                rotation[order[k]], 0, "none", "none")]
  /\ PlayIdle /\ TrainIdle /\ WalkIdle /\ ExitIdle

CallFindBestPath ==
  /\ trainPath = NullPath
  /\ trainPath' = findBestPath(tracks)
  /\ UNCHANGED <<mapVars, playVars, trainSegment, trainProgress, trainDirection, stopped,
                 totalDistance, lastCall, redSeen, walkVars, exitVars>>

NextBest == CallFindBestPath

SpecBest == InitBest /\ [][NextBest]_vars

---------------------------------------------------------------------------
(* SpecRoute: findBestPath applied to a station cell and the cells around it *)

\* The cell that holds the station, in the middle of the top row
stationCell == [x |-> 1, y |-> 0]

\* The k-th other cell of a grid three cells wide: the two ends of the top
\* row, then the rows below from west to east
routeCell(k) ==
  IF k < 2 THEN [x |-> 2 * k, y |-> 0]
  ELSE [x |-> (k - 2) % 3, y |-> 1 + ((k - 2) \div 3)]

\* The pieces a cell around the station may hold
RouteShapes ==
  {[type |-> "curve_90", rotation |-> r, switchState |-> "none"] : r \in Rotations}
  \cup {[type |-> "station", rotation |-> 90, switchState |-> "none"],
        [type |-> "crossing", rotation |-> 0, switchState |-> "none"],
        [type |-> "switch_left", rotation |-> 90, switchState |-> "none"],
        [type |-> "switch_left", rotation |-> 90, switchState |-> "right"],
        [type |-> "switch_right", rotation |-> 270, switchState |-> "right"]}

\* What the station cell may hold
StationShapes ==
  {[type |-> "station", rotation |-> r, switchState |-> "none"] : r \in {0, 90}}

RECURSIVE routePieces(_, _)
\* The pieces of the cells k, k + 1, ... around the station, with ids from 2
routePieces(filling, k) ==
  IF k >= MaxCells THEN <<>>
  ELSE IF filling[k] = EmptyCell THEN routePieces(filling, k + 1)
  ELSE <<TrackPiece(k + 2, filling[k].type, routeCell(k).x, routeCell(k).y,
                    filling[k].rotation, 0, filling[k].switchState, "none")>>
       \o routePieces(filling, k + 1)

InitRoute ==
  /\ \E centre_ \in StationShapes \cup {EmptyCell},
        filling \in [0..(MaxCells - 1) -> RouteShapes \cup {EmptyCell}],
        stationFirst \in BOOLEAN :
       LET station == IF centre_ = EmptyCell THEN <<>>
                      ELSE <<TrackPiece(1, centre_.type, stationCell.x, stationCell.y,
                                        centre_.rotation, 0, "none", "none")>>
       IN tracks = IF stationFirst THEN station \o routePieces(filling, 0)
                   ELSE routePieces(filling, 0) \o station
  /\ PlayIdle /\ TrainIdle /\ WalkIdle /\ ExitIdle

SpecRoute == InitRoute /\ [][NextBest]_vars

---------------------------------------------------------------------------
(* SpecRing: findBestPath applied to six pieces laid around a 3 x 2 block *)

\* The cells of the block, clockwise from its top left cell
ringCells ==
  <<[x |-> 0, y |-> 0], [x |-> 1, y |-> 0], [x |-> 2, y |-> 0],
    [x |-> 2, y |-> 1], [x |-> 1, y |-> 1], [x |-> 0, y |-> 1]>>

\* The cells in the middle of the long sides of the block
sideCells == {2, 5}

\* What a cell on a long side may hold
SideShapes ==
  {[type |-> "station", rotation |-> 0], [type |-> "station", rotation |-> 90],
   [type |-> "straight", rotation |-> 90], [type |-> "signal", rotation |-> 90],
   [type |-> "crossing", rotation |-> 0]}

\* What a corner cell may hold
CornerShapes == {[type |-> "curve_90", rotation |-> r] : r \in Rotations}

InitRing ==
  /\ \E shape \in [1..6 -> SideShapes \cup CornerShapes], first \in 0..5 :
       /\ \A c \in 1..6 : shape[c] \in (IF c \in sideCells THEN SideShapes ELSE CornerShapes)
       /\ tracks = [k \in 1..6 |->
                      LET c == ((first + k - 1) % 6) + 1
                      IN TrackPiece(c, shape[c].type, ringCells[c].x, ringCells[c].y,
                                    shape[c].rotation, 0, "none", "none")]
  /\ PlayIdle /\ TrainIdle /\ WalkIdle /\ ExitIdle

SpecRing == InitRing /\ [][NextBest]_vars

---------------------------------------------------------------------------
(* SpecSelect: findBestPath applied to several stations, each on a layout of *)
(* its own                                                                   *)

\* The cells and shapes of a layout whose station path is a line of n
\* segments: the station at the west end of a row of straights
lineLayout(n) ==
  [k \in 1..n |-> [x |-> k - 1, y |-> 0, rotation |-> 90,
                   type |-> IF k = 1 THEN "station" ELSE "straight"]]

\* A layout whose station path comes back to the station's cell from the side
\* after three curves: four segments
squareLayout ==
  <<[x |-> 0, y |-> 0, rotation |-> 0, type |-> "station"],
    [x |-> 0, y |-> 1, rotation |-> 0, type |-> "curve_90"],
    [x |-> 1, y |-> 1, rotation |-> 270, type |-> "curve_90"],
    [x |-> 1, y |-> 0, rotation |-> 180, type |-> "curve_90"]>>

\* The same around a 3 x 2 block: six segments
oblongLayout ==
  <<[x |-> 0, y |-> 0, rotation |-> 0, type |-> "station"],
    [x |-> 0, y |-> 1, rotation |-> 0, type |-> "curve_90"],
    [x |-> 1, y |-> 1, rotation |-> 90, type |-> "straight"],
    [x |-> 2, y |-> 1, rotation |-> 270, type |-> "curve_90"],
    [x |-> 2, y |-> 0, rotation |-> 180, type |-> "curve_90"],
    [x |-> 1, y |-> 0, rotation |-> 90, type |-> "straight"]>>

Layouts == {lineLayout(n) : n \in 1..MaxLine} \cup {squareLayout, oblongLayout}

\* The pieces of the i-th layout of a map, three rows below the one before
layoutPieces(layout, i) ==
  [k \in 1..Len(layout) |->
     TrackPiece(10 * i + k, layout[k].type, layout[k].x, layout[k].y + 3 * (i - 1),
                layout[k].rotation, 0, "none", "none")]

InitSelect ==
  /\ \E layouts \in [1..MaxStations -> Layouts] :
       tracks = Flatten([i \in 1..MaxStations |-> layoutPieces(layouts[i], i)])
  /\ PlayIdle /\ TrainIdle /\ WalkIdle /\ ExitIdle

SpecSelect == InitSelect /\ [][NextBest]_vars

---------------------------------------------------------------------------
(* SpecPlay: the frame callback of GameCanvas interleaved with the player's *)
(* play, stop and tool clicks                                               *)

\* maxHistoryLength of the frame callback
MaxHistoryLength == 1000

\* CARRIAGE_SPACING and the speed of the frame callback are folded into the
\* frame's delta = 1.5 * deltaTime, a multiple of 1/Unit

PlayKinds == LineKinds \cup {<<"station", "none">>}

\* A row of east-west pieces, placed from west to east
rowTracks(kinds) ==
  [i \in 1..Len(kinds) |->
     TrackPiece(i, kinds[i][1], i - 1, 0, 90, 0, "none", kinds[i][2])]

hasStation(trackMap) == \E i \in 1..Len(trackMap) : trackMap[i].type = "station"

\* Map.delete
deleteTrack(trackMap, trackId) ==
  LET kept(t) == t.id # trackId IN SelectSeq(trackMap, kept)

\* Map.set: a present key keeps its place, a new key goes last
setTrack(trackMap, track) ==
  IF \E i \in 1..Len(trackMap) : trackMap[i].id = track.id
    THEN [i \in 1..Len(trackMap) |->
            IF trackMap[i].id = track.id THEN track ELSE trackMap[i]]
    ELSE Append(trackMap, track)

HistoryPoint(segment, progress, direction, distance) ==
  [segment |-> segment, progress |-> progress, direction |-> direction,
   distance |-> distance]

Abs(n) == IF n < 0 THEN -n ELSE n

\* segments.findIndex(seg => seg.track.type === 'station'), 0-based, -1 when absent
stationIndex(path) ==
  IF \E i \in 1..Len(path.segments) : path.segments[i].track.type = "station"
    THEN (CHOOSE i \in 1..Len(path.segments) :
            /\ path.segments[i].track.type = "station"
            /\ \A j \in 1..(i - 1) : path.segments[j].track.type # "station") - 1
    ELSE -1

\* The splice taken from the end of the history
capHistory_dropsNewest(history) ==
  IF Len(history) > MaxHistoryLength
    THEN SubSeq(history, 1, MaxHistoryLength)
    ELSE history

\* history.splice(0, history.length - maxHistoryLength)
capHistory(history) ==
  IF Len(history) > MaxHistoryLength
    THEN SubSeq(history, Len(history) - MaxHistoryLength + 1, Len(history))
    ELSE history

InitPlay ==
  /\ \E n \in 1..MaxSegs :
       \E kinds \in [1..n -> PlayKinds] :
         /\ Cardinality({i \in 1..n : kinds[i][1] = "signal"}) <= MaxSignals
         /\ Cardinality({i \in 1..n : kinds[i][1] = "station"}) = 1
         /\ tracks = rowTracks(kinds)
  /\ PlayIdle /\ TrainIdle /\ WalkIdle /\ ExitIdle

\* trainPathRef after the play-state check of the frame callback
pathAtFrame ==
  IF isPlaying /\ ~wasPlaying THEN findBestPath(tracks)
  ELSE IF ~isPlaying /\ wasPlaying THEN NullPath
  ELSE trainPath

\* The other refs after the play-state check, given trainPathRef
refsAtFrame(path) ==
  LET starting == isPlaying /\ ~wasPlaying
      stopping == ~isPlaying /\ wasPlaying
      spawned == ~path.isNull /\ Len(path.segments) > 0
      startSegment == IF ~path.isNull /\ stationIndex(path) # -1
                        THEN stationIndex(path) ELSE 0
      firstPoints == IF spawned THEN <<HistoryPoint(startSegment, 0, 1, 0)>> ELSE <<>>
  IN IF starting
       THEN [segment |-> startSegment, progress |-> 0, direction |-> 1,
             history |-> firstPoints, logged |-> sessionLog \o firstPoints,
             distance |-> 0]
     ELSE IF stopping
       THEN [segment |-> 0, progress |-> 0, direction |-> 1,
             history |-> <<>>, logged |-> sessionLog, distance |-> 0]
     ELSE [segment |-> trainSegment, progress |-> trainProgress,
           direction |-> trainDirection, history |-> pathHistory,
           logged |-> sessionLog, distance |-> totalDistance]

\* The condition under which the frame callback pushes a history point
positionChanged(history, result) ==
  \/ history = <<>>
  \/ history[Len(history)].segment # result.segmentIndex
  \/ history[Len(history)].direction # result.direction
  \/ Abs(history[Len(history)].progress - result.progress) * 100 > Unit

\* The frame callback from its advanceTrainPosition call on
recordFrame(delta, refs, result) ==
  /\ trainSegment' = result.segmentIndex
  /\ trainProgress' = result.progress
  /\ trainDirection' = result.direction
  /\ stopped' = result.stopped
  /\ totalDistance' = refs.distance + delta
  /\ LET point == HistoryPoint(result.segmentIndex, result.progress, result.direction,
                               refs.distance + delta)
     IN IF positionChanged(refs.history, result)
          THEN /\ pathHistory' = capHistory(Append(refs.history, point))
               /\ sessionLog' = Append(refs.logged, point)
          ELSE /\ pathHistory' = refs.history
               /\ sessionLog' = refs.logged
  /\ lastCall' = AdvanceCall(refs.segment, refs.progress, refs.direction, delta)
  /\ frameAdvanced' = TRUE

\* The same within the bound on the distance of a play
advanceFrame(delta, refs, result) ==
  /\ refs.distance + delta <= MaxPlayDistance
  /\ recordFrame(delta, refs, result)

\* The frame callback when it does not advance the train
idleFrame(refs) ==
  /\ trainSegment' = refs.segment
  /\ trainProgress' = refs.progress
  /\ trainDirection' = refs.direction
  /\ stopped' = FALSE
  /\ totalDistance' = refs.distance
  /\ pathHistory' = refs.history
  /\ sessionLog' = refs.logged
  /\ lastCall' = NoAdvance
  /\ frameAdvanced' = FALSE

frameWith(delta, path, refs) ==
  IF isPlaying /\ ~path.isNull
    THEN advanceFrame(delta, refs,
           advanceTrainPosition(path, refs.segment, refs.progress, delta, refs.direction))
    ELSE idleFrame(refs)

frameOn(delta, path) ==
  /\ trainPath' = path
  /\ frameWith(delta, path, refsAtFrame(path))

\* The frame callback of the render loop, with 1.5 * deltaTime = delta
Frame(delta) ==
  /\ wasPlaying' = isPlaying
  /\ frameOn(delta, pathAtFrame)
  /\ UNCHANGED <<tracks, isPlaying, playStartTracks, redSeen, clicks, walkVars, exitVars>>

\* What a dispatch leaves alone: the refs of the canvas
canvasRefs == <<wasPlaying, pathHistory, trainVars, walkVars, exitVars>>

\* TOGGLE_PLAY, from the space bar or the play button
TogglePlay ==
  /\ hasStation(tracks) \/ isPlaying
  /\ isPlaying' = ~isPlaying
  /\ playStartTracks' = IF isPlaying THEN playStartTracks ELSE tracks
  /\ sessionLog' = IF isPlaying THEN sessionLog ELSE <<>>
  /\ frameAdvanced' = FALSE
  /\ UNCHANGED <<tracks, clicks, canvasRefs>>

\* SET_PLAYING with isPlaying false, from the stop button
StopPlaying ==
  /\ isPlaying
  /\ isPlaying' = FALSE
  /\ frameAdvanced' = FALSE
  /\ UNCHANGED <<tracks, playStartTracks, sessionLog, clicks, canvasRefs>>

\* A click of the select tool on the cell of track i: REMOVE_TRACK, then
\* PLACE_TRACK of the toggled copy
SelectClick(i) ==
  /\ clicks < MaxClicks
  /\ clicks' = clicks + 1
  /\ tracks[i].type \in {"switch_left", "switch_right", "signal"}
  /\ LET updatedTrack == IF tracks[i].type = "signal"
                           THEN toggleSignal(tracks[i]) ELSE toggleSwitch(tracks[i])
     IN tracks' = setTrack(deleteTrack(tracks, tracks[i].id), updatedTrack)
  /\ frameAdvanced' = FALSE
  /\ UNCHANGED <<isPlaying, playStartTracks, sessionLog, canvasRefs>>

\* A click of the remove tool on the cell of track i: REMOVE_TRACK
RemoveClick(i) ==
  /\ clicks < MaxClicks
  /\ clicks' = clicks + 1
  /\ tracks' = deleteTrack(tracks, tracks[i].id)
  /\ frameAdvanced' = FALSE
  /\ UNCHANGED <<isPlaying, playStartTracks, sessionLog, canvasRefs>>

NextPlay ==
  \/ \E delta \in 1..MaxStep : Frame(delta)
  \/ TogglePlay
  \/ StopPlaying
  \/ \E i \in 1..Len(tracks) : SelectClick(i)
  \/ \E i \in 1..Len(tracks) : RemoveClick(i)

SpecPlay == InitPlay /\ [][NextPlay]_vars

---------------------------------------------------------------------------
(* SpecCap: one play followed frame by frame until the history has been cut *)

\* The frames followed after the history has reached maxHistoryLength
CapMargin == 2

InitCap ==
  /\ \E n \in 1..2 :
       tracks = rowTracks([i \in 1..n |-> IF i = 1 THEN <<"station", "none">>
                                          ELSE <<"straight", "none">>])
  /\ \E delta \in 0..MaxStep : call = [fn |-> "frame", delta |-> delta]
  /\ isPlaying = TRUE
  /\ wasPlaying = FALSE
  /\ pathHistory = <<>>
  /\ playStartTracks = tracks
  /\ sessionLog = <<>>
  /\ frameAdvanced = FALSE
  /\ clicks = 0
  /\ exitCall = NoCall
  /\ EditIdle
  /\ TrainIdle /\ WalkIdle

longFrameWith(delta, path, refs) ==
  IF isPlaying /\ ~path.isNull
    THEN recordFrame(delta, refs,
           advanceTrainPosition(path, refs.segment, refs.progress, delta, refs.direction))
    ELSE idleFrame(refs)

\* The frame callback of the render loop, every frame with the same deltaTime
LongFrame ==
  /\ Len(sessionLog) < MaxHistoryLength + CapMargin
  /\ wasPlaying' = isPlaying
  /\ trainPath' = pathAtFrame
  /\ longFrameWith(call.delta, pathAtFrame, refsAtFrame(pathAtFrame))
  /\ UNCHANGED <<tracks, isPlaying, playStartTracks, redSeen, clicks, walkVars, exitVars>>

NextCap == LongFrame

SpecCap == InitCap /\ [][NextCap]_vars

---------------------------------------------------------------------------
(* Train position on screen: logic/trainMovement, calculateTrainPosition.
   Progress is counted in 1/Unit, tile-local coordinates in 1/LocalScale and
   world coordinates in 1/WorldScale pixels, so that every value is exact. *)

TILE_WIDTH == 64

TILE_HEIGHT == 32

ELEVATION_HEIGHT == 16

\* Control points are multiples of 1/4 of a tile
LocalScale == 4 * Unit * Unit * Unit

WorldScale == LocalScale

\* Tile-local coordinates of the middle of a tile's edge, in quarters of a tile
getDirectionPoint(direction) ==
  CASE direction = "N" -> [x |-> 2, y |-> 0]
    [] direction = "E" -> [x |-> 4, y |-> 2]
    [] direction = "S" -> [x |-> 2, y |-> 4]
    [] direction = "W" -> [x |-> 0, y |-> 2]

\* Control points in quarters of a tile
createBezierPath(entryDirection, exitDirection) ==
  LET entry == getDirectionPoint(entryDirection)
      exit == getDirectionPoint(exitDirection)
      center == [x |-> 2, y |-> 2]
      mid(a, b) == [x |-> (a.x + b.x) \div 2, y |-> (a.y + b.y) \div 2]
  IN IF <<entryDirection, exitDirection>> \in
          {<<"N", "S">>, <<"S", "N">>, <<"E", "W">>, <<"W", "E">>}
       THEN [p0 |-> entry, p1 |-> mid(entry, exit), p2 |-> mid(entry, exit), p3 |-> exit]
       ELSE [p0 |-> entry, p1 |-> mid(entry, center), p2 |-> mid(exit, center), p3 |-> exit]

\* One coordinate of the cubic at t = progress / Unit, in 1/LocalScale of a tile
bezierCoordinate(c0, c1, c2, c3, progress) ==
  LET t == progress
      u == Unit - progress
  IN (u * u * u * c0) + (3 * u * u * t * c1) + (3 * u * t * t * c2) + (t * t * t * c3)

bezierPoint(path, progress) ==
  [x |-> bezierCoordinate(path.p0.x, path.p1.x, path.p2.x, path.p3.x, progress),
   y |-> bezierCoordinate(path.p0.y, path.p1.y, path.p2.y, path.p3.y, progress)]

\* One coordinate of the tangent at t = progress / Unit, up to a positive factor
tangentCoordinate(c0, c1, c2, c3, progress) ==
  LET t == progress
      u == Unit - progress
  IN (3 * u * u * (c1 - c0)) + (6 * u * t * (c2 - c1)) + (3 * t * t * (c3 - c2))

bezierTangent(path, progress) ==
  [x |-> tangentCoordinate(path.p0.x, path.p1.x, path.p2.x, path.p3.x, progress),
   y |-> tangentCoordinate(path.p0.y, path.p1.y, path.p2.y, path.p3.y, progress)]

\* rendering/isometric, gridToScreen, in 1/WorldScale pixels; the elevation
\* is given in 1/(2 * Unit) levels
gridToScreen(x, y, elevation2U) ==
  [px |-> (x - y) * (TILE_WIDTH \div 2) * WorldScale,
   py |-> ((x + y) * (TILE_HEIGHT \div 2) * WorldScale)
          - (elevation2U * ELEVATION_HEIGHT * (WorldScale \div (2 * Unit)))]

\* local is in 1/LocalScale of a tile, the result in 1/WorldScale pixels
localToWorld(local, track, originX, originY, entryElevation, exitElevation, progress) ==
  LET isoOffsetX == (local.x - local.y) * (TILE_WIDTH \div 2)
      isoOffsetY == ((local.x + local.y) * (TILE_HEIGHT \div 2))
                    - ((TILE_HEIGHT \div 2) * WorldScale)
      entryMidpoint2 == track.elevation + entryElevation
      exitMidpoint2 == track.elevation + exitElevation
      interpolatedElevation == (entryMidpoint2 * Unit)
                               + ((exitMidpoint2 - entryMidpoint2) * progress)
      screenPos == gridToScreen(track.x, track.y, interpolatedElevation)
  IN [x |-> screenPos.px + (originX * WorldScale) + isoOffsetX,
      y |-> screenPos.py + (originY * WorldScale) + isoOffsetY]

RECURSIVE gcd(_, _)
gcd(a, b) == IF b = 0 THEN a ELSE gcd(b, a % b)

\* The angle Math.atan2(y, x), kept as the direction it points in; atan2(0, 0) is 0
atan2(y, x) ==
  IF y = 0 /\ x = 0 THEN [y |-> 0, x |-> 1]
  ELSE LET g == gcd(Abs(y), Abs(x)) IN [y |-> y \div g, x |-> x \div g]

\* The angle 0
ZeroAngle == atan2(0, 1)

\* The elevation of the segment the train comes from (towards = -1) or goes to
neighbourElevation(path, safeIndex, step) ==
  LET index == safeIndex + step
      n == Len(path.segments)
  IN IF index >= 0 /\ index < n THEN path.segments[index + 1].track.elevation
     ELSE IF path.isLoop /\ n > 1
       THEN path.segments[(IF index < 0 THEN n - 1 ELSE 0) + 1].track.elevation
     ELSE path.segments[safeIndex + 1].track.elevation

\* The body of calculateTrainPosition for a path with segments
positionOnSegment(path, segmentIndex, progress, originX, originY, direction) ==
  LET safeIndex == Max(0, Min(segmentIndex, Len(path.segments) - 1))
      segment == path.segments[safeIndex + 1]
      bezierPath == IF direction = 1
                      THEN createBezierPath(segment.entryDirection, segment.exitDirection)
                      ELSE createBezierPath(segment.exitDirection, segment.entryDirection)
      localPos == bezierPoint(bezierPath, progress)
      entryElevation == neighbourElevation(path, safeIndex, -direction)
      exitElevation == neighbourElevation(path, safeIndex, direction)
      worldPos == localToWorld(localPos, segment.track, originX, originY,
                               entryElevation, exitElevation, progress)
      tangent == bezierTangent(bezierPath, progress)
      isoTangentX == 2 * (tangent.x - tangent.y)
      isoTangentY == tangent.x + tangent.y
  IN [segmentIndex |-> safeIndex, progress |-> progress, worldX |-> worldPos.x,
      worldY |-> worldPos.y, rotation |-> atan2(isoTangentY, isoTangentX),
      direction |-> direction]

\* calculateTrainPosition with the direction argument kept for an empty path
calculateTrainPosition_keepsDirection(path, segmentIndex, progress, originX, originY, direction) ==
  IF Len(path.segments) = 0
    THEN [segmentIndex |-> 0, progress |-> 0, worldX |-> originX * WorldScale,
          worldY |-> originY * WorldScale, rotation |-> ZeroAngle, direction |-> direction]
  ELSE positionOnSegment(path, segmentIndex, progress, originX, originY, direction)

calculateTrainPosition(path, segmentIndex, progress, originX, originY, direction) ==
  IF Len(path.segments) = 0
    THEN [segmentIndex |-> 0, progress |-> 0, worldX |-> originX * WorldScale,
          worldY |-> originY * WorldScale, rotation |-> ZeroAngle, direction |-> 1]
  ELSE positionOnSegment(path, segmentIndex, progress, originX, originY, direction)

---------------------------------------------------------------------------
(* SpecPosition: calculateTrainPosition and advanceTrainPosition called once
   on a path of zero or more segments *)

MaxOrigin == 3

\* A row of pieces walked from W to E whose i-th piece lies at elevation i mod 2
slopedPath(n, isLoop) ==
  TrainPath([i \in 1..n |->
               Segment(TrackPiece(i, "straight", i - 1, 0, 90, i % 2, "none", "none"),
                       "W", "E", 0)],
            isLoop)

InitPosition ==
  /\ \E n \in 0..MaxSegs, isLoop \in BOOLEAN :
       /\ isLoop => n >= 1
       /\ trainPath = slopedPath(n, isLoop)
  /\ \E segmentIndex \in -1..MaxSegs, progress \in 0..Unit, direction \in {1, -1} :
       /\ trainSegment = segmentIndex
       /\ trainProgress = progress
       /\ trainDirection = direction
  /\ stopped = FALSE
  /\ totalDistance = 0
  /\ lastCall = NoAdvance
  /\ redSeen = FALSE
  /\ call = NotCalled
  /\ exitCall = NoCall
  /\ EditIdle
  /\ MapIdle /\ PlayIdle /\ WalkIdle

CallCalculate(originX, originY) ==
  /\ call = NotCalled
  /\ call' = [fn |-> "calculateTrainPosition", originX |-> originX, originY |-> originY,
              result |-> calculateTrainPosition(trainPath, trainSegment, trainProgress,
                                                originX, originY, trainDirection)]
  /\ UNCHANGED <<mapVars, playVars, trainVars, walkVars, exitCall, editor>>

\* On a path with segments the engine passes the index of one of them
CallAdvance(delta) ==
  /\ call = NotCalled
  /\ Len(trainPath.segments) > 0 => trainSegment \in 0..(Len(trainPath.segments) - 1)
  /\ call' = [fn |-> "advanceTrainPosition", delta |-> delta,
              result |-> advanceTrainPosition(trainPath, trainSegment, trainProgress,
                                              delta, trainDirection)]
  /\ UNCHANGED <<mapVars, playVars, trainVars, walkVars, exitCall, editor>>

NextPosition ==
  \/ \E originX \in {0, MaxOrigin}, originY \in {0, MaxOrigin} : CallCalculate(originX, originY)
  \/ \E delta \in 0..MaxStep : CallAdvance(delta)

SpecPosition == InitPosition /\ [][NextPosition]_vars

---------------------------------------------------------------------------
(* SpecConnect: getConnectedTracks applied to both of two neighbouring tracks *)

centre == [x |-> 1, y |-> 1]

InitConnect ==
  /\ \E typeA \in TrackTypes, typeB \in TrackTypes, rotationA \in Rotations,
        rotationB \in Rotations, d \in DirectionSet, aFirst \in BOOLEAN :
       LET p == getNeighborPosition(centre, d)
           A == TrackPiece(1, typeA, centre.x, centre.y, rotationA, 0, "none", "none")
           B == TrackPiece(2, typeB, p.x, p.y, rotationB, 0, "none", "none")
       IN tracks = IF aFirst THEN <<A, B>> ELSE <<B, A>>
  /\ call = NotCalled
  /\ exitCall = NoCall
  /\ EditIdle
  /\ PlayIdle /\ TrainIdle /\ WalkIdle

\* getConnectedTracks of the tracks with ids 1 and 2
CallConnected ==
  /\ call = NotCalled
  /\ LET A == tracks[CHOOSE i \in 1..Len(tracks) : tracks[i].id = 1]
         B == tracks[CHOOSE i \in 1..Len(tracks) : tracks[i].id = 2]
     IN call' = [fn |-> "getConnectedTracks", A |-> A, B |-> B,
                 ofA |-> getConnectedTracks(A, tracks),
                 ofB |-> getConnectedTracks(B, tracks)]
  /\ UNCHANGED <<mapVars, playVars, trainVars, walkVars, exitCall, editor>>

NextConnect == CallConnected

SpecConnect == InitConnect /\ [][NextConnect]_vars

---------------------------------------------------------------------------
(* SpecBestRotation: calculateBestRotation for a cell with up to four neighbours *)

NeighbourShapes ==
  {[type |-> "straight", rotation |-> r] : r \in {0, 90}}
  \cup {[type |-> "curve_90", rotation |-> r] : r \in Rotations}
  \cup {[type |-> "none", rotation |-> 0]}

\* The tracks around the centre cell, in the order of DIRECTIONS
neighbourTracks(shapes) ==
  LET piece(i) == LET p == getNeighborPosition(centre, DIRECTIONS[i])
                  IN TrackPiece(i, shapes[i].type, p.x, p.y, shapes[i].rotation, 0,
                                "none", "none")
      placed(t) == t.type # "none"
  IN SelectSeq([i \in 1..Len(DIRECTIONS) |-> piece(i)], placed)

InitBestRotation ==
  /\ \E shapes \in [1..Len(DIRECTIONS) -> NeighbourShapes] : tracks = neighbourTracks(shapes)
  /\ call = NotCalled
  /\ exitCall = NoCall
  /\ EditIdle
  /\ PlayIdle /\ TrainIdle /\ WalkIdle

CallBestRotation(trackType) ==
  /\ call = NotCalled
  /\ call' = [fn |-> "calculateBestRotation", trackType |-> trackType,
              result |-> calculateBestRotation(trackType, centre, tracks, 0)]
  /\ UNCHANGED <<mapVars, playVars, trainVars, walkVars, exitCall, editor>>

NextBestRotation == \E trackType \in TrackTypes : CallBestRotation(trackType)

SpecBestRotation == InitBestRotation /\ [][NextBestRotation]_vars

---------------------------------------------------------------------------
(* SpecEdit: the editor operations on the track map, with undo and redo.
   components/GameCanvas.tsx (handleClick, handleKeyDown) dispatch to
   context/GameContext.tsx (dispatch, undo, redo, gameReducer) *)

EditW == 2

MaxEdits == 4

MaxElevation == 1

MAX_HISTORY == 50

\* The track types the place-track tool is given
EditTypes == {"straight", "switch_left", "signal", "bridge"}

\* The cells of a grid, as positions
gridCells(grid) == {[x |-> x, y |-> y] : x \in 0..(grid.width - 1), y \in 0..(grid.height - 1)}

\* createDefaultGrid: every cell at elevation 0
createDefaultGrid(width, height) ==
  [width |-> width, height |-> height,
   elevation |-> [c \in {[x |-> x, y |-> y] : x \in 0..(width - 1), y \in 0..(height - 1)} |-> 0]]

createSnapshot(grid, trackMap) == [grid |-> grid, tracks |-> trackMap]

\* The undo stack after the wrapped dispatch has recorded an undoable action
pushHistory(undoStack, snapshot) ==
  LET pushed == Append(undoStack, snapshot)
  IN IF Len(pushed) > MAX_HISTORY THEN Tail(pushed) ELSE pushed

\* The elevation handleClick gives to a bridge or a tunnel entrance
spanElevation(pos, trackMap, grid) ==
  LET neighbors == findConnectableNeighbors(pos, trackMap)
      around == {getNeighborPosition(pos, d) : d \in DirectionSet} \cap gridCells(grid)
      heights == {grid.elevation[c] : c \in around \cup {pos}}
  IN IF Len(neighbors) > 0 THEN neighbors[1].track.elevation
     ELSE CHOOSE h \in heights : \A other \in heights : other <= h

\* SET_TERRAIN_ELEVATION that changes the grid alone
tracksAtElevation_gridOnly(trackMap, pos, newElevation) == trackMap

\* gameReducer, SET_TERRAIN_ELEVATION: the tracks of the cell follow the terrain
tracksAtElevation(trackMap, pos, newElevation) ==
  [i \in 1..Len(trackMap) |->
     IF position(trackMap[i]) = pos /\ trackMap[i].type \notin {"bridge", "tunnel_entrance"}
       THEN [trackMap[i] EXCEPT !.elevation = newElevation]
       ELSE trackMap[i]]

InitEdit ==
  /\ tracks = <<>>
  /\ editor = [grid |-> createDefaultGrid(EditW, 1), undoStack |-> <<>>, redoStack |-> <<>>,
               edits |-> 0, pending |-> <<>>]
  /\ exitCall = NoCall
  /\ call = NotCalled
  /\ PlayIdle /\ TrainIdle /\ WalkIdle

\* An editor operation within the bound on their number
editing ==
  /\ editor.edits < MaxEdits
  /\ UNCHANGED <<playVars, trainVars, walkVars, exitCall, call>>

\* An undoable action dispatched the given number of times from one handler:
\* each dispatch records the state the handler was created with. pending is
\* not a value of the program: it lists, for every user action that has not
\* been undone, the grid and the tracks before it.
recorded(times, newGrid) ==
  editor' = [editor EXCEPT
               !.grid = newGrid,
               !.undoStack = IF times = 2
                               THEN pushHistory(pushHistory(@, createSnapshot(editor.grid, tracks)),
                                                createSnapshot(editor.grid, tracks))
                               ELSE pushHistory(@, createSnapshot(editor.grid, tracks)),
               !.redoStack = <<>>,
               !.pending = Append(@, createSnapshot(editor.grid, tracks)),
               !.edits = @ + 1]

\* generateId: an id that no earlier call has returned
generateId == editor.edits + 1

\* A click of the place-track tool on a cell
EditPlace(pos, trackType) ==
  /\ editing
  /\ canPlaceTrack(pos, tracks, editor.grid.width, editor.grid.height)
  /\ LET best == calculateBestRotation(trackType, pos, tracks, editor.grid.elevation[pos])
         finalElevation == IF trackType \in {"bridge", "tunnel_entrance"}
                             THEN spanElevation(pos, tracks, editor.grid)
                             ELSE best.elevation
         newTrack == TrackPiece(generateId, trackType, pos.x, pos.y, best.rotation, finalElevation,
                                "none", "none")
     IN tracks' = setTrack(tracks, newTrack)
  /\ recorded(1, editor.grid)

\* A click of the remove tool on a cell
EditRemove(pos) ==
  /\ editing
  /\ findTrackAtPosition(tracks, pos) # NoTrack
  /\ tracks' = deleteTrack(tracks, findTrackAtPosition(tracks, pos).id)
  /\ recorded(1, editor.grid)

\* The R key over a cell
EditRotate(pos) ==
  /\ editing
  /\ findTrackAtPosition(tracks, pos) # NoTrack
  /\ LET track == findTrackAtPosition(tracks, pos)
         updatedTrack == [track EXCEPT !.rotation = (track.rotation + 90) % 360]
     IN tracks' = setTrack(deleteTrack(tracks, track.id), updatedTrack)
  /\ recorded(2, editor.grid)

\* A click of the select tool on a switch or a signal
EditToggle(pos) ==
  /\ editing
  /\ findTrackAtPosition(tracks, pos).type \in {"switch_left", "switch_right", "signal"}
  /\ LET track == findTrackAtPosition(tracks, pos)
         updatedTrack == IF track.type = "signal" THEN toggleSignal(track)
                         ELSE toggleSwitch(track)
     IN tracks' = setTrack(deleteTrack(tracks, track.id), updatedTrack)
  /\ recorded(2, editor.grid)

\* A click of the raise (by = 1) or the lower (by = -1) terrain tool on a cell
EditTerrain(pos, by) ==
  /\ editing
  /\ editor.grid.elevation[pos] + by <= MaxElevation
  /\ LET newElevation == Max(0, editor.grid.elevation[pos] + by)
     IN /\ tracks' = tracksAtElevation(tracks, pos, newElevation)
        /\ recorded(1, [editor.grid EXCEPT !.elevation[pos] = newElevation])

\* The clear button
EditClear ==
  /\ editing
  /\ tracks' = <<>>
  /\ recorded(1, createDefaultGrid(editor.grid.width, editor.grid.height))

Undo ==
  /\ editing
  /\ Len(editor.undoStack) > 0
  /\ LET snapshot == editor.undoStack[Len(editor.undoStack)]
     IN /\ tracks' = snapshot.tracks
        /\ editor' = [editor EXCEPT
                        !.grid = snapshot.grid,
                        !.undoStack = SubSeq(@, 1, Len(@) - 1),
                        !.redoStack = Append(@, createSnapshot(editor.grid, tracks)),
                        !.pending = SubSeq(@, 1, Len(@) - 1),
                        !.edits = @ + 1]

Redo ==
  /\ editing
  /\ Len(editor.redoStack) > 0
  /\ LET snapshot == editor.redoStack[Len(editor.redoStack)]
     IN /\ tracks' = snapshot.tracks
        /\ editor' = [editor EXCEPT
                        !.grid = snapshot.grid,
                        !.redoStack = SubSeq(@, 1, Len(@) - 1),
                        !.undoStack = Append(@, createSnapshot(editor.grid, tracks)),
                        !.pending = Append(@, createSnapshot(editor.grid, tracks)),
                        !.edits = @ + 1]

NextEdit ==
  \/ \E pos \in gridCells(editor.grid), trackType \in EditTypes :
       EditPlace(pos, trackType)
  \/ \E pos \in gridCells(editor.grid) : EditRemove(pos)
  \/ \E pos \in gridCells(editor.grid) : EditRotate(pos)
  \/ \E pos \in gridCells(editor.grid) : EditToggle(pos)
  \/ \E pos \in gridCells(editor.grid), by \in {1, -1} : EditTerrain(pos, by)
  \/ EditClear
  \/ Undo
  \/ Redo

SpecEdit == InitEdit /\ [][NextEdit]_vars

---------------------------------------------------------------------------
(* Carriage following: components/GameCanvas.tsx, findPositionInHistory.
   The progress of a returned point is progress + plus.num / plus.den, which
   keeps the interpolation exact. *)

\* null
NoPoint == [isNull |-> TRUE]

FoundPoint(segment, progress, plus, direction, distance) ==
  [isNull |-> FALSE, segment |-> segment, progress |-> progress, plus |-> plus,
   direction |-> direction, distance |-> distance]

\* A point of the history as findPositionInHistory returns it
samePoint(point) ==
  FoundPoint(point.segment, point.progress, [num |-> 0, den |-> 1], point.direction,
             point.distance)

RECURSIVE searchHistory_roundsDown(_, _, _, _)
\* The binary search with the middle taken one place lower
searchHistory_roundsDown(history, targetDistance, left, right) ==
  IF ~(left < right) THEN left
  ELSE LET mid == (left + right) \div 2
       IN IF history[mid + 1].distance <= targetDistance
            THEN IF mid = left THEN left
                 ELSE searchHistory_roundsDown(history, targetDistance, mid, right)
            ELSE searchHistory_roundsDown(history, targetDistance, left, mid - 1)

RECURSIVE searchHistory(_, _, _, _)
\* The while loop of findPositionInHistory; indices are 0-based
searchHistory(history, targetDistance, left, right) ==
  IF ~(left < right) THEN left
  ELSE LET mid == (left + right + 1) \div 2
       IN IF history[mid + 1].distance <= targetDistance
            THEN searchHistory(history, targetDistance, mid, right)
            ELSE searchHistory(history, targetDistance, left, mid - 1)

\* findPositionInHistory that never returns null
findPositionInHistory_neverNull(history, currentDistance, offsetDistance) ==
  IF Len(history) = 0 THEN samePoint(HistoryPoint(0, 0, 1, 0))
  ELSE samePoint(history[1])

findPositionInHistory(history, currentDistance, offsetDistance) ==
  LET targetDistance == currentDistance - offsetDistance IN
  IF targetDistance < 0 \/ Len(history) = 0 THEN NoPoint
  ELSE LET left == searchHistory(history, targetDistance, 0, Len(history) - 1)
           point == history[left + 1]
       IN IF left + 1 < Len(history)
            THEN LET nextPoint == history[left + 2]
                     segmentLength == nextPoint.distance - point.distance
                 IN IF /\ segmentLength > 0
                       /\ point.segment = nextPoint.segment
                       /\ point.direction = nextPoint.direction
                      THEN FoundPoint(point.segment, point.progress,
                                      [num |-> (targetDistance - point.distance)
                                               * (nextPoint.progress - point.progress),
                                       den |-> segmentLength],
                                      point.direction, targetDistance)
                      ELSE samePoint(point)
            ELSE samePoint(point)

\* Distances of a history lookup are counted in 1/(2 * Unit) of a segment, so
\* that the spacing of 0.5 segments is Unit
CARRIAGE_SPACING == Unit

\* The carriage loop of the frame callback: the carriages that are given a
\* position, each with the history point its position is computed from
carriagePositions(history, totalDistance_, carriageCount) ==
  LET historyPoint(i) == findPositionInHistory(history, totalDistance_,
                                               (i + 1) * CARRIAGE_SPACING)
      placed == {i \in 0..(carriageCount - 1) : ~historyPoint(i).isNull}
  IN [k \in 1..Cardinality(placed) |->
        LET i == CHOOSE i \in placed : Cardinality({j \in placed : j <= i}) = k
        IN [carriage |-> i, historyPoint |-> historyPoint(i)]]

---------------------------------------------------------------------------
(* SpecHistory: findPositionInHistory and the carriage loop on a history
   whose distances never decrease *)

MaxPoints == 3

MaxCarriages == 2

\* Segment and direction of a history point
PointKinds == {<<0, 1>>, <<1, 1>>, <<1, -1>>}

RECURSIVE distancesFrom(_, _)
\* The cumulative distances of a history given its first distance and its increments
distancesFrom(first, increments) ==
  IF increments = <<>> THEN <<first>>
  ELSE <<first>> \o distancesFrom(first + Head(increments), Tail(increments))

InitHistory ==
  /\ \E n \in 0..MaxPoints :
       IF n = 0 THEN pathHistory = <<>>
       ELSE \E kinds \in [1..n -> PointKinds], progress \in [1..n -> {0, Unit}],
               first \in {0, Unit}, increments \in [1..(n - 1) -> {0, 1, Unit}] :
              pathHistory = [i \in 1..n |->
                               HistoryPoint(kinds[i][1], progress[i], kinds[i][2],
                                            distancesFrom(first, increments)[i])]
  /\ isPlaying = FALSE
  /\ wasPlaying = FALSE
  /\ playStartTracks = <<>>
  /\ sessionLog = <<>>
  /\ frameAdvanced = FALSE
  /\ clicks = 0
  /\ call = NotCalled
  /\ exitCall = NoCall
  /\ EditIdle
  /\ MapIdle /\ TrainIdle /\ WalkIdle

CallFindPosition(currentDistance, offsetDistance) ==
  /\ call = NotCalled
  /\ call' = [fn |-> "findPositionInHistory", currentDistance |-> currentDistance,
              offsetDistance |-> offsetDistance,
              result |-> findPositionInHistory(pathHistory, currentDistance, offsetDistance)]
  /\ UNCHANGED <<mapVars, playVars, trainVars, walkVars, exitCall, editor>>

\* The carriage loop of one frame
CarriageLoop(currentDistance, carriageCount) ==
  /\ call = NotCalled
  /\ call' = [fn |-> "carriagePositions", currentDistance |-> currentDistance,
              carriageCount |-> carriageCount,
              result |-> carriagePositions(pathHistory, currentDistance, carriageCount)]
  /\ UNCHANGED <<mapVars, playVars, trainVars, walkVars, exitCall, editor>>

NextHistory ==
  \/ \E currentDistance \in 0..(2 * Unit), offsetDistance \in {0, 1, CARRIAGE_SPACING} :
       CallFindPosition(currentDistance, offsetDistance)
  \/ \E currentDistance \in 0..(2 * Unit), carriageCount \in 0..MaxCarriages :
       CarriageLoop(currentDistance, carriageCount)

SpecHistory == InitHistory /\ [][NextHistory]_vars

---------------------------------------------------------------------------
(* SpecBounce: TrainEngine.update called frame after frame on a line without
   a red signal *)

RECURSIVE segmentsEntered(_, _, _, _)
\* The values newSegment takes in the while loops of advanceTrainPosition
segmentsEntered(path, newSegment, newProgress, direction) ==
  IF newProgress < Unit THEN {}
  ELSE LET stepped == newSegment + direction
           outside == stepped < 0 \/ stepped >= Len(path.segments)
           entered == IF ~outside THEN stepped
                      ELSE IF (direction = 1) = path.isLoop THEN 0
                      ELSE Len(path.segments) - 1
       IN IF (outside /\ ~path.isLoop) \/ isRedSignal(path.segments[entered + 1])
            THEN {entered}
            ELSE {entered} \cup segmentsEntered(path, entered, newProgress - Unit, direction)

BounceKinds == {<<"straight", "none">>, <<"signal", "none">>, <<"signal", "green">>}

InitBounce ==
  /\ \E n \in 1..MaxSegs :
       \E kinds \in [1..n -> BounceKinds] :
         /\ Cardinality({i \in 1..n : kinds[i][1] = "signal"}) <= MaxSignals
         /\ trainPath = linePath(kinds, FALSE)
  /\ trainSegment = 0
  /\ trainProgress = 0
  /\ trainDirection = 1
  /\ stopped = FALSE
  /\ totalDistance = 0
  /\ lastCall = NoAdvance
  /\ redSeen = FALSE
  /\ call = [fn |-> "update", entered |-> {}]
  /\ exitCall = NoCall
  /\ EditIdle
  /\ MapIdle /\ PlayIdle /\ WalkIdle

\* TrainEngine.update with speed * deltaTime = delta > 0
BounceFrame(delta) ==
  /\ LET result == advanceTrainPosition(trainPath, trainSegment, trainProgress,
                                        delta, trainDirection)
     IN /\ trainSegment' = result.segmentIndex
        /\ trainProgress' = result.progress
        /\ trainDirection' = result.direction
        /\ stopped' = result.stopped
  /\ lastCall' = AdvanceCall(trainSegment, trainProgress, trainDirection, delta)
  /\ call' = [fn |-> "update",
              entered |-> segmentsEntered(trainPath, trainSegment, trainProgress + delta,
                                          trainDirection)]
  /\ UNCHANGED <<trainPath, totalDistance, redSeen, mapVars, playVars, walkVars, exitCall,
                 editor>>

NextBounce == \E delta \in 1..MaxStep : BounceFrame(delta)

\* Frames keep coming: the render loop calls update on every animation frame
SpecBounce == InitBounce /\ [][NextBounce]_vars /\ WF_vars(NextBounce)

---------------------------------------------------------------------------
(* SpecAdvance: advanceTrainPosition called again and again from any position *)
(* of a path, with steps of any size                                          *)

\* A step longer than twice the longest path
LongStep == MaxDistance + 1

InitAdvance ==
  /\ \E n \in 1..MaxSegs, isLoop \in BOOLEAN :
       /\ \E kinds \in kindSeqs(n) : trainPath = linePath(kinds, isLoop)
       /\ trainSegment \in 0..(n - 1)
  /\ trainProgress \in 0..Unit
  /\ trainDirection \in {1, -1}
  /\ stopped = FALSE
  /\ totalDistance = 0
  /\ lastCall = NoAdvance
  /\ redSeen = FALSE
  /\ call = [fn |-> "advanceTrainPosition", made |-> FALSE, delta |-> 0, direction |-> 1]
  /\ exitCall = NoCall
  /\ EditIdle
  /\ MapIdle /\ PlayIdle /\ WalkIdle

\* advanceTrainPosition on the result of the call before, speed * deltaTime = delta
CallAdvanceAgain(delta) ==
  /\ LET result == advanceTrainPosition(trainPath, trainSegment, trainProgress,
                                        delta, trainDirection)
     IN /\ trainSegment' = result.segmentIndex
        /\ trainProgress' = result.progress
        /\ trainDirection' = result.direction
        /\ stopped' = result.stopped
  /\ call' = [fn |-> "advanceTrainPosition", made |-> TRUE, delta |-> delta,
              direction |-> trainDirection]
  /\ UNCHANGED <<trainPath, totalDistance, lastCall, redSeen, mapVars, playVars, walkVars,
                 exitCall, editor>>

NextAdvance == \E delta \in (0..MaxStep) \cup {LongStep} : CallAdvanceAgain(delta)

SpecAdvance == InitAdvance /\ [][NextAdvance]_vars

---------------------------------------------------------------------------
(* SpecRotate: rotateDirection applied twice and applied to the sum *)

InitRotate ==
  /\ \E d \in DirectionSet, r1 \in Rotations, r2 \in Rotations :
       call = [fn |-> "rotateDirection", made |-> FALSE, d |-> d, r1 |-> r1, r2 |-> r2,
               twice |-> "none", once |-> "none"]
  /\ exitCall = NoCall
  /\ EditIdle
  /\ MapIdle /\ PlayIdle /\ TrainIdle /\ WalkIdle

CallRotate ==
  /\ ~call.made
  /\ call' = [call EXCEPT
                !.made = TRUE,
                !.twice = rotateDirection(rotateDirection(call.d, call.r1), call.r2),
                !.once = rotateDirection(call.d, (call.r1 + call.r2) % 360)]
  /\ UNCHANGED <<mapVars, playVars, trainVars, walkVars, exitCall, editor>>

NextRotate == CallRotate

SpecRotate == InitRotate /\ [][NextRotate]_vars

---------------------------------------------------------------------------
(* Claims about findExitDirection, under SpecExit *)

\* C2: a switch_left of any rotation entered from its (rotated) S side is
\* routed to its (rotated) W side along the divert path, index 1, when
\* switchState is 'left', and to its (rotated) N side along the main path,
\* index 0, when switchState is 'right'.
C2_SwitchLeftRouting ==
  LET track == exitCall.track IN
  (/\ exitCall.called
   /\ track.type = "switch_left"
   /\ exitCall.entryDirection = rotateDirection("S", track.rotation))
  => /\ track.switchState = "left" =>
          exitCall.result = [found |-> TRUE,
                             exitDirection |-> rotateDirection("W", track.rotation),
                             pathIndex |-> 1]
     /\ track.switchState = "right" =>
          exitCall.result = [found |-> TRUE,
                             exitDirection |-> rotateDirection("N", track.rotation),
                             pathIndex |-> 0]

\* C20: a switch_left or switch_right of any rotation whose switchState is
\* absent is routed along its main path: findExitDirection returns path
\* index 0 for every entry direction on one of the switch's connections.
C20_AbsentStateTakesMainPath ==
  LET track == exitCall.track IN
  (/\ exitCall.called
   /\ track.type \in {"switch_left", "switch_right"}
   /\ track.switchState = "none"
   /\ exitCall.entryDirection \in Range(getTrackConnections(track)))
  => /\ exitCall.result.found
     /\ exitCall.result.pathIndex = 0

---------------------------------------------------------------------------
(* Claims about advanceTrainPosition, under SpecMove *)

currentSegment == trainPath.segments[trainSegment + 1]

\* The train has been stopped on entering the red signal it stands on
heldAtRed ==
  /\ Len(trainPath.segments) > 0
  /\ stopped
  /\ isRedSignal(currentSegment)
  /\ trainProgress = 0

\* C1: once the train has entered a red signal's segment, every later call
\* leaves it on that segment at progress 0 while the signal stays red; once the
\* signal is green the next call moves it forward from progress 0.
C1_HeldWhileRed ==
  [][/\ (heldAtRed /\ trainPath' = trainPath)
          => (trainSegment' = trainSegment /\ trainProgress' = 0)
     /\ (/\ Len(trainPath.segments) > 0
         /\ currentSegment.track.type = "signal"
         /\ ~isRedSignal(currentSegment)
         /\ trainProgress = 0
         /\ trainPath' = trainPath
         /\ lastCall'.made
         /\ lastCall'.delta \in 1..(Unit - 1))
          => (trainSegment' = trainSegment /\ trainProgress' = lastCall'.delta)]_vars

\* The last call stayed inside its segment: positive speed*dt, no boundary crossed
stayedInSegment ==
  /\ lastCall.made
  /\ Len(trainPath.segments) > 0
  /\ lastCall.delta > 0
  /\ lastCall.progress + lastCall.delta < Unit

\* C6 as stated: inside a segment the returned progress is strictly larger than
\* before when direction is +1 and strictly smaller than before when direction is -1.
C6_ProgressFollowsDirection ==
  stayedInSegment =>
    /\ lastCall.direction = 1 => trainProgress > lastCall.progress
    /\ lastCall.direction = -1 => trainProgress < lastCall.progress

\* C6 amended: on a path with at least one segment, a call with positive speed*dt
\* that crosses no segment boundary returns the same segment and direction and a
\* strictly larger progress, for direction +1 and for direction -1 alike.
C6_ProgressIncreases ==
  stayedInSegment =>
    /\ trainProgress > lastCall.progress
    /\ trainSegment = lastCall.segment
    /\ trainDirection = lastCall.direction

\* A backward call inside a segment has been made
C6_Witness ==
  stayedInSegment /\ lastCall.direction = -1 /\ trainProgress = lastCall.progress + lastCall.delta

\* No segment with a 0-based index in lo..hi is a red signal
noRedWithin(path, lo, hi) ==
  \A i \in lo..hi : ~isRedSignal(path.segments[i + 1])

\* C7: on a non-loop path a call that carries a forward train past the end of
\* the last segment by an overshoot below 1 returns the last segment,
\* direction -1 and progress equal to the overshoot; a backward train carried
\* past the end of segment 0 is returned on segment 0 with direction +1 and
\* progress equal to the overshoot.
C7_ReversalKeepsOvershoot ==
  [][LET n == Len(trainPath.segments)
         total == trainProgress + lastCall'.delta
         forwardOvershoot == total - (n - trainSegment) * Unit
         backwardOvershoot == total - (trainSegment + 1) * Unit
     IN (/\ lastCall'.made
         /\ trainPath' = trainPath
         /\ n >= 1
         /\ ~trainPath.isLoop)
        => /\ (/\ trainDirection = 1
               /\ noRedWithin(trainPath, trainSegment + 1, n - 1)
               /\ forwardOvershoot \in 0..(Unit - 1))
              => (/\ trainSegment' = n - 1
                  /\ trainDirection' = -1
                  /\ trainProgress' = forwardOvershoot)
           /\ (/\ trainDirection = -1
               /\ noRedWithin(trainPath, 0, trainSegment - 1)
               /\ backwardOvershoot \in 0..(Unit - 1))
              => (/\ trainSegment' = 0
                  /\ trainDirection' = 1
                  /\ trainProgress' = backwardOvershoot)]_vars

\* A train started at segment 0 of a 3-segment non-loop path has been carried
\* past the end of segment 2 by an overshoot strictly between 0 and 1
C7_Witness ==
  /\ Len(trainPath.segments) = 3
  /\ ~trainPath.isLoop
  /\ lastCall.made /\ lastCall.direction = 1
  /\ totalDistance = 3 * Unit + trainProgress
  /\ trainProgress \in 1..(Unit - 1)
  /\ lastCall.delta > trainProgress
  /\ trainSegment = 2
  /\ trainDirection = -1

\* C9: on a loop path of N segments with no red signal, calls whose speed*dt
\* total exactly N segments bring a train started at segment 0, progress 0,
\* direction +1 back to segment 0, progress 0, direction +1.
C9_LoopRoundTrip ==
  (/\ trainPath.isLoop
   /\ ~redSeen
   /\ totalDistance = Len(trainPath.segments) * Unit)
  => (trainSegment = 0 /\ trainProgress = 0 /\ trainDirection = 1)

\* A train has gone once round a 4-segment loop in steps that are not whole segments
C9_Witness ==
  /\ trainPath.isLoop
  /\ ~redSeen
  /\ Len(trainPath.segments) = 4
  /\ totalDistance = 4 * Unit
  /\ lastCall.made /\ lastCall.delta % Unit # 0
  /\ trainSegment = 0

---------------------------------------------------------------------------
(* Claims about buildPath, under SpecWalk *)

walkDone == ~walk.running /\ walk.stop # "none"

segmentKeys(segments) ==
  {<<segments[i].trackId, segments[i].entryDirection>> : i \in 1..Len(segments)}

RECURSIVE connectionEnds(_)
\* The number of (track piece, connection direction) pairs of a track map
connectionEnds(trackMap) ==
  IF trackMap = <<>> THEN 0
  ELSE Cardinality(Range(getTrackConnections(Head(trackMap))))
       + connectionEnds(Tail(trackMap))

\* C4 (as stated): the path built by buildPath never has more segments than
\* the map has track pieces.
C4_SegmentsWithinTrackCount == Len(walk.segments) <= Len(tracks)

\* C4 (amended): buildPath takes at most one walk step per (track piece, entry
\* direction) pair, so at most 4 * tracks.size steps; the segments of the path
\* have pairwise different (track id, entry direction) pairs and are no more
\* than the connection directions of all pieces of the map together.
C4_SegmentsWithinEntryCount ==
  /\ Cardinality(walk.visitedKeys) <= 4 * Len(tracks)
  /\ Len(walk.segments) <= Cardinality(walk.visitedKeys)
  /\ Cardinality(segmentKeys(walk.segments)) = Len(walk.segments)
  /\ Len(walk.segments) <= connectionEnds(tracks)

\* A finished walk that passed a crossing or switch twice: more segments than pieces
C4_Witness ==
  /\ walkDone
  /\ Len(walk.segments) > Len(tracks)

\* Why a finished walk stopped, read off the map rather than off the loop
stopJustified ==
  LET last == walk.segments[Len(walk.segments)]
      beyond == findTrackAtPosition(tracks,
                  getNeighborPosition(position(last.track), last.exitDirection))
  IN CASE walk.stop = "revisit" ->
            /\ walk.isLoop
            /\ <<walk.currentTrack.id, walk.entryDirection>> \in segmentKeys(walk.segments)
       [] walk.stop = "noExit" ->
            /\ ~walk.isLoop
            /\ \A p \in 1..Len(TRACK_DEFINITIONS[walk.currentTrack.type]) :
                 \/ walk.entryDirection
                      \notin Range(rotatePath(TRACK_DEFINITIONS[walk.currentTrack.type][p],
                                              walk.currentTrack.rotation))
                 \/ divertSkipped(walk.currentTrack, p - 1)
       [] walk.stop = "noNeighbour" ->
            /\ ~walk.isLoop
            /\ last.track = walk.currentTrack
            /\ beyond = NoTrack
       [] walk.stop = "notFacing" ->
            /\ ~walk.isLoop
            /\ last.track = walk.currentTrack
            /\ beyond # NoTrack
            /\ OPPOSITE_DIRECTION[last.exitDirection] \notin Range(getTrackConnections(beyond))
       [] OTHER -> FALSE

\* The (track id, entry direction) pairs a walk over the map can meet
entryPairs == {tracks[i].id : i \in 1..Len(tracks)} \X DirectionSet

\* C5: every buildPath call ends, also on maps with cycles: an iteration of
\* the loop either ends the call or meets a (track id, entry direction) pair it
\* had not met, and the map has finitely many pairs. The call ends for one of
\* four reasons: a pair met for the second time (no pair was met twice before),
\* no exit for the entry direction, no neighbour at the exit, or a neighbour
\* that does not face back.
C5_WalkTerminates ==
  /\ [][walk.running =>
          \/ walkDone'
          \/ /\ walk'.running
             /\ walk.visitedKeys \subseteq walk'.visitedKeys
             /\ Cardinality(walk'.visitedKeys) = Cardinality(walk.visitedKeys) + 1]_vars
  /\ [](walk.visitedKeys \subseteq entryPairs)
  /\ [](walkDone => stopJustified)
  /\ [](Cardinality(segmentKeys(walk.segments)) = Len(walk.segments))

\* A finished walk around a cycle, stopped by the revisit of its first pair
C5_Witness ==
  /\ walkDone
  /\ walk.stop = "revisit"
  /\ Len(walk.segments) >= 4

---------------------------------------------------------------------------
(* Claims about findBestPath, under SpecBest *)

\* Every connection of the piece meets a piece of the map that faces back
joinedBothEnds(trackMap, track) ==
  /\ Len(getTrackConnections(track)) = 2
  /\ \A d \in Range(getTrackConnections(track)) :
       LET neighbour == findTrackAtPosition(trackMap, getNeighborPosition(position(track), d))
       IN /\ neighbour # NoTrack
          /\ OPPOSITE_DIRECTION[d] \in Range(getTrackConnections(neighbour))

\* Four pieces on the cells of a square, each joined to two of the others,
\* none of them a station, switch or crossing
isSquareRing(trackMap) ==
  /\ Len(trackMap) = 4
  /\ \E ox \in 0..MaxOffset, oy \in 0..MaxOffset :
       {position(trackMap[i]) : i \in 1..4} = {blockCell(ox, oy, c) : c \in BlockCells}
  /\ \A i \in 1..4 :
       /\ trackMap[i].type \notin {"station", "switch_left", "switch_right", "crossing"}
       /\ joinedBothEnds(trackMap, trackMap[i])

\* C8: on a closed square ring of 4 pieces without station, switch or crossing,
\* findBestPath returns a loop of exactly 4 segments, one per piece.
C8_RingIsLoopOfFour ==
  (isSquareRing(tracks) /\ trainPath # NullPath) =>
    /\ ~trainPath.isNull
    /\ trainPath.isLoop
    /\ Len(trainPath.segments) = 4
    /\ {trainPath.segments[i].trackId : i \in 1..Len(trainPath.segments)}
         = {tracks[i].id : i \in 1..4}

\* The best path of a ring whose pieces were not placed in ring order
C8_Witness ==
  /\ isSquareRing(tracks)
  /\ trainPath # NullPath
  /\ tracks[1].id = 3 /\ tracks[2].id = 1

---------------------------------------------------------------------------
(* Claims about the play loop, under SpecPlay *)

\* The last frame moved the train into the segment it is in now
enteredSegment ==
  /\ frameAdvanced
  /\ Len(trainPath.segments) > 0
  /\ trainSegment # lastCall.segment

\* C3: during play the signal state advanceTrainPosition reads is the state
\* the track map holds at that frame: a train that a frame has moved into a
\* signal's segment is stopped there exactly if the map holds that signal red.
C3_ReadsCurrentSignalState ==
  (enteredSegment /\ currentSegment.track.type = "signal") =>
    \A i \in 1..Len(tracks) :
      tracks[i].id = currentSegment.trackId =>
        (stopped <=> tracks[i].signalState = "red")

\* C10: in every frame that advances the train the path is the one
\* findBestPath computes from the track map of the most recent change of
\* isPlaying from false to true, and every point of the carriage history was
\* recorded since that change.
C10_PathAndHistoryOfThisPlay ==
  frameAdvanced =>
    /\ trainPath = findBestPath(playStartTracks)
    /\ \A k \in 1..Len(pathHistory) :
         \E j \in 1..Len(sessionLog) : sessionLog[j] = pathHistory[k]

---------------------------------------------------------------------------
(* Claims about rotateDirection, under SpecRotate *)

\* C15: for every direction d and rotations r1, r2, rotating d by r1 and then
\* by r2 gives the same direction as rotating d by (r1 + r2) mod 360.
C15_RotationsCompose ==
  (call.fn = "rotateDirection" /\ call.made) =>
    /\ call.twice \in DirectionSet
    /\ call.twice = call.once

\* Two rotations whose sum passes a full turn have been composed
C15_Witness ==
  /\ call.fn = "rotateDirection" /\ call.made
  /\ call.r1 + call.r2 > 360
  /\ call.d = "W"
  /\ call.once = "E"

---------------------------------------------------------------------------
(* Claims about a path with zero segments, under SpecPosition *)

\* C19: for a path with zero segments and every segment index, progress,
\* step and direction, calculateTrainPosition returns segment 0, progress 0,
\* the origin offset as world position, rotation 0 and direction +1, and
\* advanceTrainPosition returns segment 0, progress 0, direction +1 and
\* stopped = TRUE.
C19_EmptyPathDefaults ==
  Len(trainPath.segments) = 0 =>
    /\ call.fn = "calculateTrainPosition" =>
         call.result = [segmentIndex |-> 0, progress |-> 0,
                        worldX |-> call.originX * WorldScale,
                        worldY |-> call.originY * WorldScale,
                        rotation |-> ZeroAngle, direction |-> 1]
    /\ call.fn = "advanceTrainPosition" =>
         call.result = [segmentIndex |-> 0, progress |-> 0, direction |-> 1,
                        stopped |-> TRUE]

\* calculateTrainPosition has been called on an empty path with a segment
\* index out of range, a progress and an origin that are not zero, and
\* direction -1
C19_Witness ==
  /\ Len(trainPath.segments) = 0
  /\ call.fn = "calculateTrainPosition"
  /\ trainSegment = -1 /\ trainProgress = Unit /\ trainDirection = -1
  /\ call.originX = MaxOrigin /\ call.originY = MaxOrigin

---------------------------------------------------------------------------
(* Claims about getConnectedTracks, under SpecConnect *)

\* getConnectedTracks lists the track under the direction
lists(connected, direction, track) ==
  \E k \in 1..Len(connected) :
    connected[k].direction = direction /\ connected[k].track = track

\* C14: for two placed tracks A at p and B at p + offset(d), of any types and
\* rotations, getConnectedTracks(A) lists B under d exactly when
\* getConnectedTracks(B) lists A under opposite(d).
C14_ConnectionIsSymmetric ==
  call.fn = "getConnectedTracks" =>
    \A d \in DirectionSet :
      position(call.B) = getNeighborPosition(position(call.A), d) =>
        (lists(call.ofA, d, call.B) <=> lists(call.ofB, OPPOSITE_DIRECTION[d], call.A))

\* Two neighbours of different types have been asked and each lists the other
C14_Witness ==
  /\ call.fn = "getConnectedTracks"
  /\ call.A.type = "curve_90" /\ call.B.type = "switch_left"
  /\ \E d \in DirectionSet :
       /\ position(call.B) = getNeighborPosition(position(call.A), d)
       /\ lists(call.ofA, d, call.B)
       /\ lists(call.ofB, OPPOSITE_DIRECTION[d], call.A)

---------------------------------------------------------------------------
(* Claims about calculateBestRotation, under SpecBestRotation *)

\* The neighbours of the centre that face it and that a piece of the type
\* would face when turned by the rotation
facedNeighbours(trackType, rotation) ==
  {d \in DirectionSet :
     /\ \E i \in 1..Len(tracks) :
          /\ position(tracks[i]) = getNeighborPosition(centre, d)
          /\ OPPOSITE_DIRECTION[d] \in
               {rotateDirection(TRACK_DEFINITIONS[tracks[i].type][m][n], tracks[i].rotation) :
                  m \in 1..Len(TRACK_DEFINITIONS[tracks[i].type]), n \in 1..2}
     /\ \E m \in 1..Len(TRACK_DEFINITIONS[trackType]), n \in 1..2 :
          rotateDirection(TRACK_DEFINITIONS[trackType][m][n], rotation) = d}

\* C16: calculateBestRotation returns the rotation that maximises the number
\* of neighbours which face the position and which the new piece would face,
\* the first such rotation in the order 0, 90, 180, 270 (so 0 when nothing
\* can connect), and connectionCount is that maximal number.
C16_FirstBestRotation ==
  call.fn = "calculateBestRotation" =>
    LET count(r) == Cardinality(facedNeighbours(call.trackType, r))
    IN /\ call.result.rotation \in Rotations
       /\ \A r \in Rotations : count(r) <= count(call.result.rotation)
       /\ \A r \in Rotations : r < call.result.rotation => count(r) < count(call.result.rotation)
       /\ call.result.connectionCount = count(call.result.rotation)
       /\ (\A r \in Rotations : count(r) = 0) => call.result.rotation = 0

\* A rotation other than 0 has been chosen although a later rotation ties with it
C16_Witness ==
  /\ call.fn = "calculateBestRotation"
  /\ call.result.rotation = 90
  /\ call.result.connectionCount = 2
  /\ Cardinality(facedNeighbours(call.trackType, 180)) = 2

---------------------------------------------------------------------------
(* Claims about the editor, under SpecEdit *)

\* C11: starting from the empty track map, after any sequence of editor
\* operations (place, remove, rotate, toggle, terrain change, undo, redo,
\* clear) no two track pieces of the track map occupy the same grid position.
C11_OnePiecePerCell ==
  editor # NoEditor =>
    \A i \in 1..Len(tracks), j \in 1..Len(tracks) :
      position(tracks[i]) = position(tracks[j]) => i = j

\* Every cell holds a piece after pieces were placed, one of them was turned
\* with R and the turn was undone
C11_Witness ==
  /\ editor # NoEditor
  /\ Len(tracks) = EditW
  /\ Len(editor.undoStack) > EditW
  /\ Len(editor.redoStack) > 0
  /\ \E i \in 1..Len(tracks) :
       editor.redoStack[1].tracks[Len(tracks)] =
         [tracks[i] EXCEPT !.rotation = (@ + 90) % 360]

---------------------------------------------------------------------------
(* Claims about findPositionInHistory, under SpecHistory *)

\* The 1-based index of the latest history point at or before the target, 0 if none
latestAtOrBefore(target) ==
  IF \E k \in 1..Len(pathHistory) : pathHistory[k].distance <= target
    THEN CHOOSE k \in 1..Len(pathHistory) :
           /\ pathHistory[k].distance <= target
           /\ \A j \in (k + 1)..Len(pathHistory) : pathHistory[j].distance > target
    ELSE 0

\* The result is what the claim describes for the base point of index k
basedOn(result, k, target) ==
  LET point == pathHistory[k]
      interpolates == /\ k < Len(pathHistory)
                      /\ pathHistory[k + 1].segment = point.segment
                      /\ pathHistory[k + 1].direction = point.direction
  IN /\ ~result.isNull
     /\ result.segment = point.segment
     /\ result.direction = point.direction
     /\ result.distance <= target
     /\ IF interpolates
          THEN /\ result.progress = point.progress
               /\ result.plus.den > 0
               /\ result.plus.num * (pathHistory[k + 1].distance - point.distance)
                    = result.plus.den * (target - point.distance)
                      * (pathHistory[k + 1].progress - point.progress)
          ELSE result = samePoint(point)

C12_BasedOnLatestPointFromFirst ==
  (/\ call.fn = "findPositionInHistory"
   /\ Len(pathHistory) > 0
   /\ call.currentDistance - call.offsetDistance >= pathHistory[1].distance)
  => LET target == call.currentDistance - call.offsetDistance
     IN basedOn(call.result, latestAtOrBefore(target), target)

\* C13: findPositionInHistory returns null whenever offsetDistance exceeds
\* currentDistance, whatever the history, and whenever the history is empty;
\* a carriage whose lookup returns null is given no position in that frame.
C13_NullBeforeStartAndNoPosition ==
  /\ (/\ call.fn = "findPositionInHistory"
      /\ (call.offsetDistance > call.currentDistance \/ Len(pathHistory) = 0))
     => call.result = NoPoint
  /\ call.fn = "carriagePositions" =>
       /\ \A i \in 0..(call.carriageCount - 1) :
            ((i + 1) * CARRIAGE_SPACING > call.currentDistance \/ Len(pathHistory) = 0)
            => (\A k \in 1..Len(call.result) : call.result[k].carriage # i)
       /\ \A k \in 1..Len(call.result) : ~call.result[k].historyPoint.isNull

\* A frame with two carriages and a history of several points gave the first
\* carriage a position and the second, whose offset exceeds the distance, none
C13_Witness ==
  /\ call.fn = "carriagePositions"
  /\ call.carriageCount = 2
  /\ Len(pathHistory) > 1
  /\ call.currentDistance < 2 * CARRIAGE_SPACING
  /\ Len(call.result) = 1
  /\ call.result[1].carriage = 0

---------------------------------------------------------------------------
(* Claims about the segments of findBestPath, under SpecRoute *)

\* The two ends of the connection path the segment's pathIndex selects, after
\* the rotation of the segment's track
selectedEnds(segment) ==
  LET def == TRACK_DEFINITIONS[segment.track.type]
  IN {rotateDirection(def[segment.pathIndex + 1][n], segment.track.rotation) : n \in 1..2}

\* The post-rotation connection set of the segment's track
connectionSet(segment) ==
  LET def == TRACK_DEFINITIONS[segment.track.type]
  IN {rotateDirection(def[m][n], segment.track.rotation) : m \in 1..Len(def), n \in 1..2}

\* C18: every segment of every path findBestPath returns (from buildPath,
\* reversed before a station, or the station's own) has an entry and an exit
\* direction that are both in its track's post-rotation connection set and
\* are the two ends of the one declared connection path its pathIndex selects.
C18_SegmentsFollowDeclaredPaths ==
  ~trainPath.isNull =>
    \A i \in 1..Len(trainPath.segments) :
      LET segment == trainPath.segments[i]
      IN /\ segment.track.type \in TrackTypes
         /\ segment.pathIndex \in 0..(Len(TRACK_DEFINITIONS[segment.track.type]) - 1)
         /\ segment.entryDirection \in connectionSet(segment)
         /\ segment.exitDirection \in connectionSet(segment)
         /\ segment.entryDirection # segment.exitDirection
         /\ {segment.entryDirection, segment.exitDirection} = selectedEnds(segment)

\* A path with reversed segments before its station, built segments after it
\* and a switch taken along its divert path
C18_Witness ==
  /\ ~trainPath.isNull
  /\ \E i \in 2..(Len(trainPath.segments) - 1) : trainPath.segments[i].track.type = "station"
  /\ \E i \in 1..Len(trainPath.segments) :
       /\ trainPath.segments[i].track.type \in {"switch_left", "switch_right"}
       /\ trainPath.segments[i].pathIndex = 1

---------------------------------------------------------------------------
(* Claims about a train on a line, under SpecBounce *)

\* The train is on the segment after the frame, or ran through it during the frame
visits(i) == trainSegment = i \/ i \in call.entered

\* The frame turned the train round at the last segment
turnedAtEnd ==
  /\ lastCall.made /\ lastCall.direction = 1
  /\ trainDirection = -1
  /\ trainSegment = Len(trainPath.segments) - 1

\* The frame turned the train round at segment 0
turnedAtStart ==
  /\ lastCall.made /\ lastCall.direction = -1
  /\ trainDirection = 1
  /\ trainSegment = 0

smallSteps == lastCall.made => lastCall.delta <= Unit

---------------------------------------------------------------------------
(* Claims about findBestPath on a ring through a station, under SpecRing *)

\* Six pieces, one on each cell of the block, each with two connections that
\* both meet a piece facing back, at least one of them a station
isStationRing(trackMap) ==
  /\ Len(trackMap) = 6
  /\ \A i \in 1..6 : joinedBothEnds(trackMap, trackMap[i])
  /\ \E i \in 1..6 : trackMap[i].type = "station"

\* The number of segments of the path that run over the piece
segmentsOver(path, trackId) ==
  Cardinality({i \in 1..Len(path.segments) : path.segments[i].trackId = trackId})

\* C21: for a track map that is a single closed ring containing a station
\* joined on both sides, findBestPath returns a path with isLoop true in which
\* every track of the ring, the station included, appears in exactly one segment.
C21_StationRingIsLoopOnceAround ==
  (isStationRing(tracks) /\ trainPath # NullPath) =>
    /\ ~trainPath.isNull
    /\ trainPath.isLoop
    /\ \A i \in 1..6 : segmentsOver(trainPath, tracks[i].id) = 1

\* What findBestPath returns for a ring through a station: no loop, and a
\* path that runs twice around the ring and over the station a third time
C21_RingWalkedTwice ==
  (isStationRing(tracks) /\ trainPath # NullPath) =>
    /\ ~trainPath.isNull
    /\ ~trainPath.isLoop
    /\ Len(trainPath.segments) = 13
    /\ \A i \in 1..6 :
         segmentsOver(trainPath, tracks[i].id) = IF tracks[i] = trainPath.segments[7].track THEN 3 ELSE 2

---------------------------------------------------------------------------
(* Claims about loop paths, under SpecRoute and SpecWalk *)

\* Leaving the last segment through its exit arrives on the first segment's
\* track from the side the first segment is entered
closedPath(segments) ==
  LET first == segments[1]
      last == segments[Len(segments)]
  IN /\ getNeighborPosition(position(last.track), last.exitDirection) = position(first.track)
     /\ first.entryDirection = OPPOSITE_DIRECTION[last.exitDirection]

\* C22: every path findBestPath returns with isLoop true is closed: leaving
\* the last segment's track through its exit direction reaches the first
\* segment's track position, and the first segment's entry direction is the
\* opposite of the last segment's exit direction.
C22_LoopPathsAreClosed ==
  (~trainPath.isNull /\ trainPath.isLoop) =>
    /\ Len(trainPath.segments) > 0
    /\ closedPath(trainPath.segments)

\* The same of the paths of buildPath
C22_LoopWalksAreClosed ==
  (walkDone /\ walk.isLoop) =>
    /\ Len(walk.segments) > 0
    /\ closedPath(walk.segments)

---------------------------------------------------------------------------
(* Claims about the choice among station paths, under SpecSelect *)

\* The paths of the stations of the map, in the order findBestPath meets them
candidatePaths(trackMap) ==
  LET isStation(t) == t.type = "station"
      stations == SelectSeq(trackMap, isStation)
  IN [i \in 1..Len(stations) |-> buildFullPathFromStation(stations[i], trackMap)]

\* C23: whatever the order of the stations, the path P findBestPath returns
\* has no candidate with more segments, except that P may be a loop chosen
\* over a non-loop candidate; when P is a loop no loop candidate has more
\* segments than P. (The exception is read in the widest way: a loop may be
\* preferred to a non-loop candidate of any length.)
C23_LongestStationPathLoopsFirst ==
  trainPath # NullPath =>
    \A i \in 1..Len(candidatePaths(tracks)) :
      LET candidate == candidatePaths(tracks)[i]
      IN Len(candidate.segments) > Len(trainPath.segments) =>
           (trainPath.isLoop /\ ~candidate.isLoop)

---------------------------------------------------------------------------
(* Claims about consecutive segments, under SpecRoute *)

\* Segment i + 1 lies where the exit of segment i leads, entered from there
continuous(segments) ==
  \A i \in 1..(Len(segments) - 1) :
    /\ position(segments[i + 1].track)
         = getNeighborPosition(position(segments[i].track), segments[i].exitDirection)
    /\ segments[i + 1].entryDirection = OPPOSITE_DIRECTION[segments[i].exitDirection]

\* C24: in every path findBestPath returns (a buildPath path, or the path
\* spliced around a station) each pair of consecutive segments i, i + 1 is
\* continuous: the track of segment i + 1 is at the position of segment i's
\* track plus the offset of its exit direction, and the entry direction of
\* segment i + 1 is the opposite of the exit direction of segment i.
C24_ConsecutiveSegmentsJoin ==
  ~trainPath.isNull => continuous(trainPath.segments)

\* The same of the segments of a buildPath call, at every step of its loop
C24_WalkSegmentsJoin == continuous(walk.segments)

\* A path with at least two reversed segments before its station and at
\* least one built segment after it
C24_Witness ==
  /\ ~trainPath.isNull
  /\ \E i \in 3..(Len(trainPath.segments) - 1) :
       /\ trainPath.segments[i].track.type = "station"
       /\ trainPath.segments[i - 1].track.type = "curve_90"

---------------------------------------------------------------------------
(* Claims about the range of the train's position, under SpecAdvance *)

\* C25: on a path with at least one segment, from a segment index within the
\* path and a progress in [0, 1], after any sequence of advanceTrainPosition
\* calls with non-negative speed * dt of any size the segment index is within
\* the path, the progress is in [0, 1] and the direction is +1 or -1; on a
\* loop path no call changes the direction.
C25_PositionStaysOnPath ==
  /\ [](/\ trainSegment \in 0..(Len(trainPath.segments) - 1)
        /\ trainProgress \in 0..Unit
        /\ trainDirection \in {1, -1})
  /\ [][trainPath.isLoop => trainDirection' = trainDirection]_vars

\* A call with a step longer than the path has left the train at the very
\* end of a segment of a line, turned round
C25_Witness ==
  /\ call.fn = "advanceTrainPosition" /\ call.made
  /\ call.delta = LongStep
  /\ ~trainPath.isLoop
  /\ trainProgress = Unit
  /\ trainDirection # call.direction

\* A backward call on a loop has wrapped from segment 0 to the last segment
C25_LoopWitness ==
  /\ call.fn = "advanceTrainPosition" /\ call.made
  /\ trainPath.isLoop /\ Len(trainPath.segments) = MaxSegs
  /\ trainDirection = -1
  /\ trainSegment = MaxSegs - 1

---------------------------------------------------------------------------
(* Claims about the carriages of a play session, under SpecPlay *)

\* The history with its distances counted in 1/(2 * Unit) of a segment, the
\* scale of CARRIAGE_SPACING
inHalfUnits(history) ==
  [i \in 1..Len(history) |-> [history[i] EXCEPT !.distance = 2 * @]]

\* The carriage loop of the frame that has just advanced the train
carriagesOfFrame ==
  carriagePositions(inHalfUnits(pathHistory), 2 * totalDistance, MaxCarriages)

\* The engine was recorded on the point's segment, running in the point's
\* direction, since the play button was pressed
occupiedThisPlay(point) ==
  \E j \in 1..Len(sessionLog) :
    /\ sessionLog[j].segment = point.segment
    /\ sessionLog[j].direction = point.direction

\* The point's progress is a progress recorded since the play button was
\* pressed, or lies between two that were recorded one after the other, on
\* the point's segment
betweenRecorded(point) ==
  \/ \E j \in 1..Len(sessionLog) :
       /\ sessionLog[j].segment = point.segment
       /\ point.plus.num = 0
       /\ sessionLog[j].progress = point.progress
  \/ \E j \in 1..(Len(sessionLog) - 1) :
       LET a == sessionLog[j].progress
           b == sessionLog[j + 1].progress
       IN /\ sessionLog[j].segment = point.segment
          /\ sessionLog[j + 1].segment = point.segment
          /\ point.plus.den > 0
          /\ Min(a, b) * point.plus.den <= point.progress * point.plus.den + point.plus.num
          /\ point.progress * point.plus.den + point.plus.num <= Max(a, b) * point.plus.den

\* What C26 says of the carriages of a frame
snakeFollowing(carriages) ==
  /\ \A k \in 1..Len(carriages) :
       /\ occupiedThisPlay(carriages[k].historyPoint)
       /\ betweenRecorded(carriages[k].historyPoint)
  /\ \A k \in 1..(Len(carriages) - 1) :
       /\ carriages[k].carriage < carriages[k + 1].carriage
       /\ carriages[k + 1].historyPoint.distance <= carriages[k].historyPoint.distance

\* C26: in every frame of a play session each carriage position is derived
\* from a (segment, direction) pair the engine occupied at an earlier or the
\* same frame of that play session, with a progress between two consecutively
\* recorded engine progress values on that segment, and a carriage further
\* back corresponds to an earlier or equal point of the engine's history.
C26_CarriagesFollowThisPlay ==
  (isPlaying /\ frameAdvanced) => snakeFollowing(carriagesOfFrame)

\* What holds: the same, in the frames of a play whose start the frame
\* callback has seen, so that its history is the record of this play
C26_CarriagesFollowSeenPlay ==
  (isPlaying /\ frameAdvanced /\ pathHistory = sessionLog) => snakeFollowing(carriagesOfFrame)

\* Both carriages placed behind an engine that has turned round
C26_SeenPlayWitness ==
  /\ isPlaying /\ frameAdvanced /\ pathHistory = sessionLog
  /\ Len(carriagesOfFrame) = MaxCarriages
  /\ trainDirection = -1
  /\ carriagesOfFrame[MaxCarriages].historyPoint.direction = 1

---------------------------------------------------------------------------
(* Claims about track elevation, under SpecEdit *)

\* C27: after any sequence of placements through the place-track tool,
\* terrain raise and lower operations, rotations, toggles, undo and redo,
\* every track piece that is neither a bridge nor a tunnel entrance has the
\* elevation of the terrain of the cell it stands on, and that elevation is
\* never negative.
C27_TracksFollowTerrain ==
  \A i \in 1..Len(tracks) :
    tracks[i].type \notin {"bridge", "tunnel_entrance"} =>
      /\ position(tracks[i]) \in gridCells(editor.grid)
      /\ tracks[i].elevation = editor.grid.elevation[position(tracks[i])]
      /\ tracks[i].elevation >= 0

\* A piece on raised terrain at the elevation of its cell, next to a bridge
\* that has an elevation of its own
C27_Witness ==
  /\ \E i \in 1..Len(tracks) :
       /\ tracks[i].type \notin {"bridge", "tunnel_entrance"}
       /\ tracks[i].elevation = MaxElevation
  /\ \E i \in 1..Len(tracks) :
       /\ tracks[i].type = "bridge"
       /\ tracks[i].elevation # editor.grid.elevation[position(tracks[i])]

---------------------------------------------------------------------------
(* Claims about the length of the history, under SpecCap *)

\* The last n elements of a sequence
lastOf(seq, n) == SubSeq(seq, Len(seq) - n + 1, Len(seq))

C28_HistoryOrderedInPlay ==
  /\ Len(pathHistory) <= MaxHistoryLength
  /\ \A i \in 1..(Len(pathHistory) - 1) :
       pathHistory[i].distance <= pathHistory[i + 1].distance

---------------------------------------------------------------------------
(* Claims about the select tool, under SpecEdit *)

\* The switch state findExitDirection acts on: track.switchState || 'left'
actingSwitchState(track) ==
  IF track.switchState = "none" THEN "left" ELSE track.switchState

\* The signal state advanceTrainPosition acts on: red, or anything else
actingSignalState(track) ==
  IF track.signalState = "red" THEN "red" ELSE "green"

\* The select-tool click on the cell has changed the state its piece acts with
toggled(before, after) ==
  IF before.type = "signal"
    THEN actingSignalState(after) # actingSignalState(before)
    ELSE actingSwitchState(after) # actingSwitchState(before)

\* C29: every select-tool click on a switch changes the switch state the path
\* builder acts on (an absent state counting as left), and every select-tool
\* click on a signal changes the signal state the motion engine acts on (an
\* absent state counting as green), from the first click on a freshly placed
\* piece on.
C29_EveryClickToggles ==
  [][\A pos \in gridCells(editor.grid) :
       EditToggle(pos) =>
         toggled(findTrackAtPosition(tracks, pos), findTrackAtPosition(tracks', pos))]_vars

\* What holds: a click on a piece that has a state of its own changes it
C29_LaterClicksToggle ==
  [][\A pos \in gridCells(editor.grid) :
       (/\ EditToggle(pos)
        /\ findTrackAtPosition(tracks, pos).switchState # "none"
              \/ findTrackAtPosition(tracks, pos).signalState # "none") =>
         toggled(findTrackAtPosition(tracks, pos), findTrackAtPosition(tracks', pos))]_vars

\* The grid and the tracks as one value
shown(ed, trackMap) == createSnapshot(ed.grid, trackMap)

\* An undo leaves the grid and the tracks as they were before the most recent
\* user action that has not been undone
undoRestoresBeforeLastAction ==
  (Undo /\ Len(editor.pending) > 0) =>
    shown(editor', tracks') = editor.pending[Len(editor.pending)]

\* A redo puts back what the undo before it took away: the undo keeps the
\* values it replaces on top of the redo stack, and the redo restores the top
redoRestoresBeforeUndo ==
  /\ Undo => editor'.redoStack[Len(editor'.redoStack)] = shown(editor, tracks)
  /\ Redo => shown(editor', tracks') = editor.redoStack[Len(editor.redoStack)]

\* A step that is neither an undo nor a redo is a new undoable action
newActionEmptiesRedo ==
  (editor'.edits # editor.edits /\ ~Undo /\ ~Redo) => editor'.redoStack = <<>>

\* C30: for any sequence of editor actions, an undo restores the grid and the
\* track map to exactly the values they had before the most recent user action
\* that has not been undone, a redo directly after that undo restores the
\* values they had before the undo, any new undoable action empties the redo
\* stack, and the undo stack never holds more than 50 snapshots.
C30_UndoRestoresBeforeLastAction ==
  /\ [][/\ undoRestoresBeforeLastAction
        /\ redoRestoresBeforeUndo
        /\ newActionEmptiesRedo]_vars
  /\ [](Len(editor.undoStack) <= MAX_HISTORY)

\* What holds: the redo and redo-stack parts, the bound on the undo stack, and
\* the undo while every pending action was dispatched once by its handler
C30_SingleDispatchUndo ==
  /\ [][/\ redoRestoresBeforeUndo
        /\ newActionEmptiesRedo
        /\ (/\ Undo
            /\ Len(editor.pending) > 0
            /\ Len(editor.undoStack) = Len(editor.pending)) =>
             shown(editor', tracks') = editor.pending[Len(editor.pending)]]_vars
  /\ [](Len(editor.undoStack) <= MAX_HISTORY)

====
